---------------------------- MODULE Spec2Model ----------------------------
(***************************************************************************)
(* A model of the medical-facility collection scripts under                *)
(* src/src/lib/localdata: the merge/deduplication steps, the date-window   *)
(* filters, the per-category pipelines and the pagination loops.           *)
(*                                                                         *)
(* Text is modelled as a sequence of code points, so that Python's string  *)
(* comparison (lexicographic, by code point) and str.replace / str.strip   *)
(* are computed, not assumed.                                              *)
(***************************************************************************)
EXTENDS Integers, Sequences, FiniteSets, TLC

VARIABLES
    pc,          \* the operation that produced `result` ("start" before any); in a
                 \* pagination loop "call", "loop", "done" or "raised"
    list1,       \* first input stream (explicit-range stream, the only list, or a response body)
    list2,       \* second input stream (last-modified stream)
    window,      \* <<start, end>>: 8-digit texts of the target window
    result,      \* the list the operation returned
    earlier,     \* what an earlier run of the operation on the same inputs returned
    fetcher,     \* the pagination loop being run
    use_bgn_end, \* its query mode: explicit range (TRUE) or last-modified (FALSE)
    page_index,  \* its page cursor
    range_index, \* its window cursor (last-modified mode of the comprehensive fetch)
    all_data,    \* number of records accumulated by the loop
    last,        \* the upstream answer handled by the latest iteration
    requests,    \* the window of the latest request, the requests issued to it, and the
                 \* requests issued in all
    closed,      \* windows in which a zero or short page has been handled
    now,         \* the day of datetime.now()
    slept,       \* time.sleep has been called since the latest request
    facility_type \* the facility category a fetch was called with

vars == <<pc, list1, list2, window, result, earlier,
          fetcher, use_bgn_end, page_index, range_index, all_data, last, requests, closed,
          now, slept, facility_type>>

pipeVars  == <<pc, list1, list2, window, result>>
fetchVars == <<fetcher, use_bgn_end, page_index, range_index, all_data, last,
              requests, closed, slept>>

--------------------------------------------------------------------------
(* Text: code points and the str operations the scripts use.               *)

Hyphen == 45
Slash  == 47
Space  == 32
Zero   == 48

\* Python's None (an absent field / a missing XML element): no code point is negative.
None == <<-1>>

\* Python truthiness of an optional text: None and "" are falsy.
Truthy(t) == t # None /\ t # <<>>

\* str.replace(c, ''): every occurrence of c removed.
Remove(s, c) == SelectSeq(s, LAMBDA x: x # c)

\* `c in s`
Contains(s, c) == \E i \in 1..Len(s): s[i] = c

RECURSIVE LStrip(_)
LStrip(s) == IF s # <<>> /\ Head(s) = Space THEN LStrip(Tail(s)) ELSE s

RECURSIVE RStrip(_)
RStrip(s) == IF s # <<>> /\ s[Len(s)] = Space THEN RStrip(SubSeq(s, 1, Len(s) - 1)) ELSE s

\* str.strip()
Strip(s) == RStrip(LStrip(s))

\* Python's a < b on str: lexicographic by code point, a proper prefix is smaller.
RECURSIVE StrLess(_, _)
StrLess(a, b) ==
    IF b = <<>> THEN FALSE
    ELSE IF a = <<>> THEN TRUE
    ELSE IF Head(a) # Head(b) THEN Head(a) < Head(b)
    ELSE StrLess(Tail(a), Tail(b))

\* Python's a <= b on str.
StrLeq(a, b) == a = b \/ StrLess(a, b)

--------------------------------------------------------------------------
(* Calendar: datetime, timedelta and strftime.                              *)

IsLeap(y) == (y % 4 = 0 /\ y % 100 # 0) \/ y % 400 = 0

DaysInMonth(y, m) ==
    IF m = 2 THEN (IF IsLeap(y) THEN 29 ELSE 28)
    ELSE IF m \in {4, 6, 9, 11} THEN 30 ELSE 31

\* date + timedelta(days=1); a date is <<year, month, day>>.
NextDay(d) ==
    IF d[3] < DaysInMonth(d[1], d[2]) THEN <<d[1], d[2], d[3] + 1>>
    ELSE IF d[2] < 12 THEN <<d[1], d[2] + 1, 1>>
    ELSE <<d[1] + 1, 1, 1>>

\* date - timedelta(days=1)
PrevDay(d) ==
    IF d[3] > 1 THEN <<d[1], d[2], d[3] - 1>>
    ELSE IF d[2] > 1 THEN <<d[1], d[2] - 1, DaysInMonth(d[1], d[2] - 1)>>
    ELSE <<d[1] - 1, 12, 31>>

\* date + timedelta(days=n), n of either sign, one day at a time; the day
\* reached is bound before the next step is taken from it.
RECURSIVE AddDays(_, _)
AddDays(d, n) ==
    IF n = 0 THEN d
    ELSE IF n > 0
    THEN CHOOSE r \in {AddDays(next, n - 1) : next \in {NextDay(d)}} : TRUE
    ELSE CHOOSE r \in {AddDays(prev, n + 1) : prev \in {PrevDay(d)}} : TRUE

Digit(n) == Zero + n
Digits2(n) == <<Digit(n \div 10), Digit(n % 10)>>
Digits4(n) == <<Digit(n \div 1000), Digit((n \div 100) % 10),
                Digit((n \div 10) % 10), Digit(n % 10)>>

\* strftime("%Y%m%d")
format_date_for_api(d) ==
    CHOOSE text \in {Digits4(day[1]) \o Digits2(day[2]) \o Digits2(day[3]) : day \in {d}} : TRUE

\* strftime("%Y-%m-%d")
format_date_for_display(d) ==
    Digits4(d[1]) \o <<Hyphen>> \o Digits2(d[2]) \o <<Hyphen>> \o Digits2(d[3])

\* The upstream's third encoding: YYYY/MM/DD followed by a space.
FormatSlashSpace(d) ==
    Digits4(d[1]) \o <<Slash>> \o Digits2(d[2]) \o <<Slash>> \o Digits2(d[3]) \o <<Space>>

--------------------------------------------------------------------------
(* Records and insertion-ordered dicts.                                     *)

\* A facility record: the business key, the name, the raw permit date and the
\* stream label ('데이터소스') that hospitalData / integratedMedicalData attach.
Rec(k, n, d) == [mgtNo |-> k, bplcNm |-> n, apvPermYmd |-> d, src |-> ""]

LabelBgnEnd  == "bgnYmd/endYmd"
LabelLastMod == "lastModTsBgn/lastModTsEnd"

\* A Python dict is a sequence of <<key, value>> pairs in insertion order.
HasKey(dict, k) == \E i \in 1..Len(dict): dict[i][1] = k

\* dict[k] = v: a new key is appended, an existing key keeps its place and
\* takes the new value.
DictSet(dict, k, v) ==
    IF HasKey(dict, k)
    THEN [i \in 1..Len(dict) |-> IF dict[i][1] = k THEN <<k, v>> ELSE dict[i]]
    ELSE Append(dict, <<k, v>>)

\* list(dict.values())
Values(dict) == [i \in 1..Len(dict) |-> dict[i][2]]

Range(s) == {s[i] : i \in 1..Len(s)}

--------------------------------------------------------------------------
(* Deduplication steps.                                                     *)

\* dailyMedicalDataCollector._merge_and_deduplicate, first loop: every record
\* of list1 with a truthy key is stored under its key.
RECURSIVE MergeFirstLoop(_, _)
MergeFirstLoop(list, all_facilities) ==
    IF list = <<>> THEN all_facilities
    ELSE LET facility == Head(list)
             mgt_no   == facility.mgtNo
         IN MergeFirstLoop(Tail(list),
                IF Truthy(mgt_no) THEN DictSet(all_facilities, mgt_no, facility)
                ELSE all_facilities)

\* The second loop with the membership test dropped: list2 overwrites.
RECURSIVE MergeSecondLoopOverwrite(_, _)
MergeSecondLoopOverwrite(list, all_facilities) ==
    IF list = <<>> THEN all_facilities
    ELSE LET facility == Head(list)
             mgt_no   == facility.mgtNo
         IN MergeSecondLoopOverwrite(Tail(list),
                IF Truthy(mgt_no) THEN DictSet(all_facilities, mgt_no, facility)
                ELSE all_facilities)

\* _merge_and_deduplicate, second loop: a record of list2 is stored only when
\* its key is truthy and not yet in the dict.
RECURSIVE MergeSecondLoop(_, _)
MergeSecondLoop(list, all_facilities) ==
    IF list = <<>> THEN all_facilities
    ELSE LET facility == Head(list)
             mgt_no   == facility.mgtNo
         IN MergeSecondLoop(Tail(list),
                IF Truthy(mgt_no) /\ ~HasKey(all_facilities, mgt_no)
                THEN DictSet(all_facilities, mgt_no, facility)
                ELSE all_facilities)

\* _merge_and_deduplicate with list2 overwriting list1.
merge_and_deduplicate_overwrite(l1, l2) ==
    Values(MergeSecondLoopOverwrite(l2, MergeFirstLoop(l1, <<>>)))

merge_and_deduplicate(l1, l2) ==
    Values(MergeSecondLoop(l2, MergeFirstLoop(l1, <<>>)))

\* collect_all_facilities / hospitalData.main, first loop: as above, and the
\* record is labelled with its stream.
RECURSIVE LabelFirstLoop(_, _)
LabelFirstLoop(list, all_facilities) ==
    IF list = <<>> THEN all_facilities
    ELSE LET facility == Head(list)
             mgt_no   == facility.mgtNo
         IN LabelFirstLoop(Tail(list),
                IF Truthy(mgt_no)
                THEN DictSet(all_facilities, mgt_no, [facility EXCEPT !.src = LabelBgnEnd])
                ELSE all_facilities)

\* The labelled second loop with the truthiness test dropped.
RECURSIVE LabelSecondLoopAnyKey(_, _)
LabelSecondLoopAnyKey(list, all_facilities) ==
    IF list = <<>> THEN all_facilities
    ELSE LET facility == Head(list)
             mgt_no   == facility.mgtNo
         IN LabelSecondLoopAnyKey(Tail(list),
                IF ~HasKey(all_facilities, mgt_no)
                THEN DictSet(all_facilities, mgt_no, [facility EXCEPT !.src = LabelLastMod])
                ELSE all_facilities)

RECURSIVE LabelSecondLoop(_, _)
LabelSecondLoop(list, all_facilities) ==
    IF list = <<>> THEN all_facilities
    ELSE LET facility == Head(list)
             mgt_no   == facility.mgtNo
         IN LabelSecondLoop(Tail(list),
                IF Truthy(mgt_no) /\ ~HasKey(all_facilities, mgt_no)
                THEN DictSet(all_facilities, mgt_no, [facility EXCEPT !.src = LabelLastMod])
                ELSE all_facilities)

\* The merge of collect_all_facilities without `if mgt_no` in its second loop.
collect_merge_any_key(bgn_end_facilities, lastmod_facilities) ==
    Values(LabelSecondLoopAnyKey(lastmod_facilities, LabelFirstLoop(bgn_end_facilities, <<>>)))

\* integratedMedicalData.collect_all_facilities, step 3.
collect_merge(bgn_end_facilities, lastmod_facilities) ==
    Values(LabelSecondLoop(lastmod_facilities, LabelFirstLoop(bgn_end_facilities, <<>>)))

\* hospitalData.main, step 3 (the same code).
main_merge(bgn_end_facilities, lastmod_facilities) ==
    Values(LabelSecondLoop(lastmod_facilities, LabelFirstLoop(bgn_end_facilities, <<>>)))

\* The loop with the test `mgt_no not in unique_data` left out: the last
\* record of each truthy key, at the place of the first.
RECURSIVE DedupLoopLastWins(_, _)
DedupLoopLastWins(data_list, unique_data) ==
    IF data_list = <<>> THEN unique_data
    ELSE LET item   == Head(data_list)
             mgt_no == IF item.mgtNo = None THEN <<>> ELSE item.mgtNo
         IN DedupLoopLastWins(Tail(data_list),
                IF Truthy(mgt_no)
                THEN DictSet(unique_data, mgt_no, item)
                ELSE unique_data)

\* MedicalData._deduplicate_by_mgtno: the first record of each truthy key.
RECURSIVE DedupLoop(_, _)
DedupLoop(data_list, unique_data) ==
    IF data_list = <<>> THEN unique_data
    ELSE LET item   == Head(data_list)
             mgt_no == IF item.mgtNo = None THEN <<>> ELSE item.mgtNo
         IN DedupLoop(Tail(data_list),
                IF Truthy(mgt_no) /\ ~HasKey(unique_data, mgt_no)
                THEN DictSet(unique_data, mgt_no, item)
                ELSE unique_data)

deduplicate_by_mgtno(data_list) == Values(DedupLoop(data_list, <<>>))

\* apiData._remove_duplicates: a seen set and an output list.
RECURSIVE RemoveLoop(_, _, _)
RemoveLoop(data_list, seen, unique_data) ==
    IF data_list = <<>> THEN unique_data
    ELSE LET item   == Head(data_list)
             mgt_no == item.mgtNo
         IN IF Truthy(mgt_no) /\ mgt_no \notin seen
            THEN RemoveLoop(Tail(data_list), seen \cup {mgt_no}, Append(unique_data, item))
            ELSE RemoveLoop(Tail(data_list), seen, unique_data)

remove_duplicates_by_mgtno(data_list) == RemoveLoop(data_list, {}, <<>>)

\* simple_fetch.extract_facility_info.get_text: the stripped text, '' when
\* the element is absent or has no text.
simple_get_text(text) == IF Truthy(text) THEN Strip(text) ELSE <<>>

\* simple_fetch.extract_facility_info: the name, the opening date and the
\* address of a row; mgtNo is not among the fields it takes.  The rows of
\* the model have no rdnWhlAddr element.
simple_extract_facility_info(row) ==
    [bplcNm     |-> simple_get_text(row.bplcNm),
     apvPermYmd |-> simple_get_text(row.apvPermYmd),
     rdnWhlAddr |-> simple_get_text(None)]

\* simple_fetch.remove_duplicates: a seen set of (name, address) pairs and
\* an output list.
RECURSIVE SimpleRemoveLoop(_, _, _)
SimpleRemoveLoop(facilities, seen, unique_facilities) ==
    IF facilities = <<>> THEN unique_facilities
    ELSE LET facility == Head(facilities)
             key      == <<facility.bplcNm, facility.rdnWhlAddr>>
         IN IF key \notin seen
            THEN SimpleRemoveLoop(Tail(facilities), seen \cup {key},
                                  Append(unique_facilities, facility))
            ELSE SimpleRemoveLoop(Tail(facilities), seen, unique_facilities)

simple_remove_duplicates(facilities) == SimpleRemoveLoop(facilities, {}, <<>>)

--------------------------------------------------------------------------
(* SpecMerge: the deduplication steps applied to bounded input streams.     *)

MaxStream == 2

Key100 == <<Digit(1), Digit(0), Digit(0)>>
Key101 == <<Digit(1), Digit(0), Digit(1)>>
Key102 == <<Digit(1), Digit(0), Digit(2)>>
NameX  == <<88>>
NameY  == <<89>>

Day(y, m, d) == <<y, m, d>>
D0610 == format_date_for_api(Day(2025, 6, 10))

MergeKeys  == {None, <<>>, Key100, Key101}
MergeRecs  == {Rec(k, n, D0610) : k \in MergeKeys, n \in {NameX, NameY}}

SeqsUpTo(S, n) == UNION {[1..m -> S] : m \in 0..n}

NoWindow == <<<<>>, <<>>>>

\* The clock is not read.
NoDay == <<0, 0, 0>>

\* The operation has not been run before.
NoRun == [ran |-> FALSE, value |-> <<>>]

\* No facility category is passed.
NoType == ""

\* No upstream answer handled yet.
NoAnswer == [kind |-> "none", n |-> 0, keep |-> 0, ctype |-> "xml", total |-> -1]

FetchIdle ==
    /\ fetcher = "none"
    /\ use_bgn_end = TRUE
    /\ page_index = 1
    /\ range_index = 0
    /\ all_data = 0
    /\ last = NoAnswer
    /\ requests = [range |-> -1, n |-> 0, total |-> 0]
    /\ closed = {}
    /\ slept = FALSE

InitMerge ==
    /\ pc = "start"
    /\ facility_type = NoType
    /\ now = NoDay
    /\ list1 \in SeqsUpTo(MergeRecs, MaxStream)
    /\ list2 \in SeqsUpTo(MergeRecs, MaxStream)
    /\ window = NoWindow
    /\ result = <<>>
    /\ earlier = NoRun
    /\ FetchIdle

inputVars == <<list1, list2, window, now, facility_type, earlier>>

MergeAndDeduplicate ==
    /\ pc = "start"
    /\ pc' = "_merge_and_deduplicate"
    /\ result' = merge_and_deduplicate(list1, list2)
    /\ UNCHANGED inputVars
    /\ UNCHANGED fetchVars

CollectMerge ==
    /\ pc = "start"
    /\ pc' = "collect_all_facilities"
    /\ result' = collect_merge(list1, list2)
    /\ UNCHANGED inputVars
    /\ UNCHANGED fetchVars

MainMerge ==
    /\ pc = "start"
    /\ pc' = "main"
    /\ result' = main_merge(list1, list2)
    /\ UNCHANGED inputVars
    /\ UNCHANGED fetchVars

DeduplicateByMgtno ==
    /\ pc = "start"
    /\ pc' = "_deduplicate_by_mgtno"
    /\ result' = deduplicate_by_mgtno(list1 \o list2)
    /\ UNCHANGED inputVars
    /\ UNCHANGED fetchVars

RemoveDuplicates ==
    /\ pc = "start"
    /\ pc' = "_remove_duplicates"
    /\ result' = remove_duplicates_by_mgtno(list1 \o list2)
    /\ UNCHANGED inputVars
    /\ UNCHANGED fetchVars

\* simple_fetch.main, step 3: remove_duplicates on the facilities extracted
\* from the rows of the two sources, the explicit-range source first.
SimpleRemoveDuplicates ==
    /\ pc = "start"
    /\ pc' = "remove_duplicates"
    /\ result' = simple_remove_duplicates(
                     [i \in 1..Len(list1 \o list2) |->
                         simple_extract_facility_info((list1 \o list2)[i])])
    /\ UNCHANGED inputVars
    /\ UNCHANGED fetchVars

\* The orders in which the records of a list can be put.
Orderings(list) ==
    { [i \in 1..Len(list) |-> list[q[i]]] :
        q \in { f \in [1..Len(list) -> 1..Len(list)] :
                  \A i, j \in 1..Len(list) : f[i] = f[j] => i = j } }

\* A second run that hands out the records it collected in no fixed order.
DeduplicateByMgtnoAgainAnyOrder ==
    /\ pc = "_deduplicate_by_mgtno"
    /\ ~earlier.ran
    /\ earlier' = [ran |-> TRUE, value |-> result]
    /\ result' \in Orderings(deduplicate_by_mgtno(list1 \o list2))
    /\ UNCHANGED <<pc, list1, list2, window, now, facility_type>>
    /\ UNCHANGED fetchVars

\* _merge_and_deduplicate called a second time with the same two lists.
MergeAndDeduplicateAgain ==
    /\ pc = "_merge_and_deduplicate"
    /\ ~earlier.ran
    /\ earlier' = [ran |-> TRUE, value |-> result]
    /\ result' = merge_and_deduplicate(list1, list2)
    /\ UNCHANGED <<pc, list1, list2, window, now, facility_type>>
    /\ UNCHANGED fetchVars

\* _deduplicate_by_mgtno called a second time with the same list.
DeduplicateByMgtnoAgain ==
    /\ pc = "_deduplicate_by_mgtno"
    /\ ~earlier.ran
    /\ earlier' = [ran |-> TRUE, value |-> result]
    /\ result' = deduplicate_by_mgtno(list1 \o list2)
    /\ UNCHANGED <<pc, list1, list2, window, now, facility_type>>
    /\ UNCHANGED fetchVars

NextMerge ==
    \/ MergeAndDeduplicate
    \/ CollectMerge
    \/ MainMerge
    \/ DeduplicateByMgtno
    \/ RemoveDuplicates
    \/ SimpleRemoveDuplicates
    \/ MergeAndDeduplicateAgain
    \/ DeduplicateByMgtnoAgain

SpecMerge == InitMerge /\ [][NextMerge]_vars

StreamMerges == {"_merge_and_deduplicate", "collect_all_facilities", "main"}
DedupSteps   == StreamMerges \cup {"_deduplicate_by_mgtno", "_remove_duplicates"}

\* The truthy business keys of a list.
KeysOf(list) == {list[i].mgtNo : i \in 1..Len(list)} \ {None, <<>>}

\* A record without its stream label.
Unlabel(f) == [f EXCEPT !.src = ""]

\* The records of `list` that carry key k, in order.
WithKey(list, k) == SelectSeq(list, LAMBDA f: f.mgtNo = k)

--------------------------------------------------------------------------
(* Claims about the deduplication steps (SpecMerge).                        *)

\* C1: cross-stream precedence.  After a merge of [list1, list2] (the daily
\* _merge_and_deduplicate, the merge of collect_all_facilities, the merge of
\* hospitalData.main), every business key that occurs in both streams has
\* exactly one record in the result, that record is one of list1's records
\* for the key, and where the merge labels its records the label is the
\* explicit-range stream's.
C1_CrossStreamPrecedence ==
    pc \in StreamMerges =>
        \A k \in KeysOf(list1) \cap KeysOf(list2) :
            /\ Len(WithKey(result, k)) = 1
            /\ Unlabel(WithKey(result, k)[1]) \in Range(WithKey(list1, k))
            /\ pc # "_merge_and_deduplicate" => WithKey(result, k)[1].src = LabelBgnEnd

\* C1 witness: the spec's example, A = [{key, X}], B = [{key, Y}] merged in
\* the order [A, B] gives the record named X.
C1_Witness ==
    /\ pc = "_merge_and_deduplicate"
    /\ list1 = <<Rec(Key100, NameX, D0610)>>
    /\ list2 = <<Rec(Key100, NameY, D0610)>>
    /\ result = <<Rec(Key100, NameX, D0610)>>

\* C2: first-writer-wins inside every stream, the first included.  After a
\* merge, the record the result holds for a key is the earliest record that
\* carries the key in list1 followed by list2.
C2_FirstWriterWinsEveryStream ==
    pc \in StreamMerges =>
        \A k \in KeysOf(list1 \o list2) :
            /\ Len(WithKey(result, k)) = 1
            /\ Unlabel(WithKey(result, k)[1]) = WithKey(list1 \o list2, k)[1]

\* C3: missing business key.  Every record in the output of a deduplication
\* step has a business key that is neither absent nor empty, and every record
\* of the output comes from the input.
C3_NoMissingKeyInOutput ==
    pc \in DedupSteps =>
        \A i \in 1..Len(result) :
            /\ result[i].mgtNo # None
            /\ result[i].mgtNo # <<>>
            /\ Unlabel(result[i]) \in Range(list1 \o list2)

\* C3 witness: an input with an absent key, an empty key and a real key; only
\* the last survives.
C3_Witness ==
    /\ pc = "collect_all_facilities"
    /\ list1 = <<Rec(None, NameX, D0610), Rec(Key100, NameX, D0610)>>
    /\ list2 = <<Rec(<<>>, NameY, D0610)>>
    /\ Len(result) = 1
    /\ result[1].mgtNo = Key100

--------------------------------------------------------------------------
(* Date-window filters.                                                     *)

\* datetime.strptime(text, "%Y%m%d") of an 8-digit text.
Num(text, i, j) ==
    LET RECURSIVE Acc(_, _)
        Acc(k, v) == IF k > j THEN v ELSE Acc(k + 1, 10 * v + (text[k] - Zero))
    IN Acc(i, 0)

strptime_api(text) == <<Num(text, 1, 4), Num(text, 5, 6), Num(text, 7, 8)>>

\* _filter_by_target_dates: `if "-" in open_date: open_date = open_date.replace("-", "")`
NormalizeTargetDate(open_date) ==
    IF Contains(open_date, Hyphen) THEN Remove(open_date, Hyphen) ELSE open_date

\* The window test with the lower bound made strict.
InWindowStrict(start_str, date, end_str) == StrLess(start_str, date) /\ StrLeq(date, end_str)

\* `start_str <= open_date <= end_str`
InWindow(start_str, date, end_str) == StrLeq(start_str, date) /\ StrLeq(date, end_str)

\* DailyMedicalDataCollector._filter_by_target_dates: the records pass through
\* unchanged.
filter_by_target_dates(facilities, start_str, end_str) ==
    SelectSeq(facilities, LAMBDA facility:
        /\ Truthy(facility.apvPermYmd)
        /\ InWindow(start_str, NormalizeTargetDate(facility.apvPermYmd), end_str))

\* extract_facility_info.get_text: the stripped text, None for a missing
\* element or an empty text.
get_text(t) == IF Truthy(t) THEN Strip(t) ELSE None

\* hospitalData.extract_facility_info
extract_facility_info(row) ==
    Rec(get_text(row.mgtNo), get_text(row.bplcNm), get_text(row.apvPermYmd))

\* filter_by_opening_date: `apv_perm_ymd.text.strip()`, then `replace('-', '')`
NormalizeOpeningDate(text) == Remove(Strip(text), Hyphen)

\* hospitalData.filter_by_opening_date
filter_by_opening_date(data, start_date, end_date) ==
    LET passed == SelectSeq(data, LAMBDA row:
                      /\ Truthy(row.apvPermYmd)
                      /\ InWindow(start_date, NormalizeOpeningDate(row.apvPermYmd), end_date))
    IN [i \in 1..Len(passed) |-> extract_facility_info(passed[i])]

\* integratedMedicalData.filter_by_opening_date (the same test; the facility
\* type it attaches is not modelled)
filter_by_opening_date_integrated(data, start_date, end_date) ==
    LET passed == SelectSeq(data, LAMBDA row:
                      /\ Truthy(row.apvPermYmd)
                      /\ InWindow(start_date, NormalizeOpeningDate(row.apvPermYmd), end_date))
    IN [i \in 1..Len(passed) |-> extract_facility_info(passed[i])]

\* MedicalData.get_medical_data_by_approval_date, step 5:
\* replace('-', '').replace('/', '').replace(' ', '').strip(), then [:8] when
\* at least 8 characters remain.
CleanApprovalDate(apv_date) ==
    LET apv_date_clean == Strip(Remove(Remove(Remove(apv_date, Hyphen), Slash), Space))
    IN IF Len(apv_date_clean) >= 8 THEN SubSeq(apv_date_clean, 1, 8) ELSE apv_date_clean

filter_by_approval_date(unique_data, target_date) ==
    SelectSeq(unique_data, LAMBDA item:
        /\ Truthy(item.apvPermYmd)
        /\ CleanApprovalDate(item.apvPermYmd) = target_date)

--------------------------------------------------------------------------
(* SpecFilter: the filters applied to bounded record lists.                 *)

MaxFacilities == 2

\* The windows: the spec's example, the daily collector's window for
\* today = 2025-06-01 (today - 7 .. today + 3), and a single day at the end
\* of a year.
Windows ==
    { <<Day(2025, 6, 8), Day(2025, 6, 15)>>,
      <<Day(2025, 5, 25), Day(2025, 6, 4)>>,
      <<Day(2024, 12, 31), Day(2024, 12, 31)>> }

WindowText(w) == <<format_date_for_api(w[1]), format_date_for_api(w[2])>>

\* The three encodings in which the upstream writes a day.
Encodings(d) == {format_date_for_api(d), format_date_for_display(d), FormatSlashSpace(d)}

\* The days around a window's bounds.
EdgeDays(w) == {PrevDay(w[1]), w[1], w[2], NextDay(w[2])}

\* The raw permit dates offered to a filter: every encoding of the edge
\* days, and the malformed ones: absent, empty, a 7-character prefix.
RawDates(w) ==
    UNION {Encodings(d) : d \in EdgeDays(w)}
    \cup {None, <<>>}
    \cup {SubSeq(format_date_for_api(d), 1, 7) : d \in {w[1], w[2]}}

\* The daily collector's window is date_range_start = today - 7 ..
\* date_range_end = today + 3.
IsDailyWindow(w) ==
    LET today == AddDays(strptime_api(w[1]), 7)
    IN /\ w[1] = format_date_for_api(AddDays(today, -7))
       /\ w[2] = format_date_for_api(AddDays(today, 3))

InitFilter ==
    /\ pc = "start"
    /\ facility_type = NoType
    /\ now = NoDay
    /\ \E w \in Windows :
          /\ window = WindowText(w)
          /\ list1 \in SeqsUpTo({Rec(Key100, NameX, d) : d \in RawDates(w)}, MaxFacilities)
    /\ list2 = <<>>
    /\ result = <<>>
    /\ earlier = NoRun
    /\ FetchIdle

FilterByTargetDates ==
    /\ pc = "start"
    /\ IsDailyWindow(window)
    /\ pc' = "_filter_by_target_dates"
    /\ result' = filter_by_target_dates(list1, window[1], window[2])
    /\ UNCHANGED inputVars
    /\ UNCHANGED fetchVars

FilterByOpeningDate ==
    /\ pc = "start"
    /\ pc' = "filter_by_opening_date"
    /\ result' = filter_by_opening_date(list1, window[1], window[2])
    /\ UNCHANGED inputVars
    /\ UNCHANGED fetchVars

FilterByOpeningDateIntegrated ==
    /\ pc = "start"
    /\ pc' = "integrated.filter_by_opening_date"
    /\ result' = filter_by_opening_date_integrated(list1, window[1], window[2])
    /\ UNCHANGED inputVars
    /\ UNCHANGED fetchVars

\* The target date of get_medical_data_by_approval_date is the window's start.
FilterByApprovalDate ==
    /\ pc = "start"
    /\ pc' = "get_medical_data_by_approval_date"
    /\ result' = filter_by_approval_date(list1, window[1])
    /\ UNCHANGED inputVars
    /\ UNCHANGED fetchVars

NextFilter ==
    \/ FilterByTargetDates
    \/ FilterByOpeningDate
    \/ FilterByOpeningDateIntegrated
    \/ FilterByApprovalDate

SpecFilter == InitFilter /\ [][NextFilter]_vars

WindowFilters == {"_filter_by_target_dates", "filter_by_opening_date",
                  "integrated.filter_by_opening_date"}

\* The value the filter named by pc compares against the window, for a raw date.
Normalized(raw) ==
    IF pc = "_filter_by_target_dates" THEN NormalizeTargetDate(raw)
    ELSE IF pc = "get_medical_data_by_approval_date" THEN CleanApprovalDate(raw)
    ELSE NormalizeOpeningDate(raw)

\* The record the filter named by pc emits for an input record it retains.
Emitted(row) ==
    IF pc \in {"filter_by_opening_date", "integrated.filter_by_opening_date"}
    THEN extract_facility_info(row) ELSE row

\* Input record i of the filter was retained.
Retained(i) == Emitted(list1[i]) \in Range(result)

\* The window's bounds as days.
StartDay == strptime_api(window[1])
EndDay   == strptime_api(window[2])

\* C6: boundary inclusivity.  After _filter_by_target_dates or
\* filter_by_opening_date, an input record whose permit date, as the filter
\* normalizes it, equals the window's start or end is in the output, and one
\* whose normalized date is the day before start or the day after end is not.
C6_BoundaryInclusive ==
    pc \in WindowFilters =>
        \A i \in 1..Len(list1) :
            LET raw == list1[i].apvPermYmd IN
            Truthy(raw) =>
                /\ Normalized(raw) \in {window[1], window[2]} => Retained(i)
                /\ Normalized(raw) \in {format_date_for_api(PrevDay(StartDay)),
                                        format_date_for_api(NextDay(EndDay))}
                       => ~Retained(i)

\* C6 witness: window [20250608, 20250615]; the records dated 2025-06-08 and
\* 20250616 go in, the first comes out, the second does not.
C6_Witness ==
    /\ pc = "filter_by_opening_date"
    /\ window = <<format_date_for_api(Day(2025, 6, 8)), format_date_for_api(Day(2025, 6, 15))>>
    /\ list1 = <<Rec(Key100, NameX, format_date_for_display(Day(2025, 6, 8))),
                 Rec(Key100, NameX, format_date_for_api(Day(2025, 6, 16)))>>
    /\ result = <<Rec(Key100, NameX, format_date_for_display(Day(2025, 6, 8)))>>

\* The days whose encodings are offered around the current window.
OfferedDays == {PrevDay(StartDay), StartDay, EndDay, NextDay(EndDay)}

\* C7: normalization tolerance.  The encodings YYYY-MM-DD, YYYYMMDD and
\* "YYYY/MM/DD " of one day normalize to the same 8-digit text, and the
\* filter keeps or drops all records that differ only in the encoding alike.
C7_EncodingTolerance ==
    pc \in WindowFilters \cup {"get_medical_data_by_approval_date"} =>
        \A i, j \in 1..Len(list1) :
            (\E d \in OfferedDays :
                 {list1[i].apvPermYmd, list1[j].apvPermYmd} \subseteq Encodings(d))
            => /\ Normalized(list1[i].apvPermYmd) = Normalized(list1[j].apvPermYmd)
               /\ Retained(i) <=> Retained(j)

\* C8: malformed date exclusion.  A record whose normalized permit date is
\* empty or shorter than 8 characters is not in the filter's output.
C8_MalformedExcluded ==
    pc \in WindowFilters =>
        \A i \in 1..Len(list1) :
            LET raw == list1[i].apvPermYmd IN
            (~Truthy(raw) \/ Len(Normalized(raw)) < 8) => ~Retained(i)

--------------------------------------------------------------------------
(* The per-category pipelines: fetched rows -> reconciled, filtered list.   *)

\* DailyMedicalDataCollector._extract_facility_info returns None (the row is
\* dropped) unless mgtNo and apvPermYmd are truthy.
daily_row_kept(row) == Truthy(row.mgtNo) /\ Truthy(row.apvPermYmd)

\* _extract_facility_info on a kept row: the values are copied as they are.
daily_extract_facility_info(row) == Rec(row.mgtNo, row.bplcNm, row.apvPermYmd)

\* _fetch_by_date_params, the conversion of the fetched rows.
ConvertRows(rows) ==
    LET kept == SelectSeq(rows, daily_row_kept)
    IN [i \in 1..Len(kept) |-> daily_extract_facility_info(kept[i])]

\* list.sort(key=lambda x: x['개원일'] or ''): stable, ascending by the text.
SortKey(x) == IF Truthy(x.apvPermYmd) THEN x.apvPermYmd ELSE <<>>

RECURSIVE InsertSorted(_, _)
InsertSorted(sorted, x) ==
    IF sorted = <<>> THEN <<x>>
    ELSE IF StrLess(SortKey(x), SortKey(Head(sorted))) THEN <<x>> \o sorted
    ELSE <<Head(sorted)>> \o InsertSorted(Tail(sorted), x)

RECURSIVE SortByOpeningDate(_)
SortByOpeningDate(list) ==
    IF list = <<>> THEN <<>>
    ELSE InsertSorted(SortByOpeningDate(SubSeq(list, 1, Len(list) - 1)), list[Len(list)])

\* fetch_medical_data_for_date_range, one facility type, without
\* deduplication: the two streams concatenated and filtered.
daily_pipeline_no_dedup(by_permit_rows, by_update_rows, start_str, end_str) ==
    filter_by_target_dates(
        ConvertRows(by_permit_rows) \o ConvertRows(by_update_rows),
        start_str, end_str)

\* DailyMedicalDataCollector.fetch_medical_data_for_date_range, one facility
\* type: merge the two converted streams, then filter.
daily_pipeline(by_permit_rows, by_update_rows, start_str, end_str) ==
    filter_by_target_dates(
        merge_and_deduplicate(ConvertRows(by_permit_rows), ConvertRows(by_update_rows)),
        start_str, end_str)

\* integratedMedicalData.collect_all_facilities, one facility type: filter
\* each stream, then merge.
collect_all_facilities(bgn_end_data, lastmod_data, api_start, api_end) ==
    collect_merge(
        filter_by_opening_date_integrated(bgn_end_data, api_start, api_end),
        filter_by_opening_date_integrated(lastmod_data, api_start, api_end))

\* hospitalData.main from step 1 to the sort before the report.
hospital_main(bgn_end_data, lastmod_data, api_start, api_end) ==
    SortByOpeningDate(
        main_merge(
            filter_by_opening_date(bgn_end_data, api_start, api_end),
            filter_by_opening_date(lastmod_data, api_start, api_end)))

--------------------------------------------------------------------------
(* SpecPipeline: the pipelines applied to bounded pairs of fetched streams. *)

\* The rows the two query modes return, together.
MaxRows == 4

\* The spec's example window [20250608, 20250615], and the daily collector's
\* window for today = 2025-06-15, [20250608, 20250618].
PipelineWindows ==
    { <<Day(2025, 6, 8), Day(2025, 6, 15)>>, <<Day(2025, 6, 8), Day(2025, 6, 18)>> }

D0612 == format_date_for_display(Day(2025, 6, 12))
D0625 == format_date_for_api(Day(2025, 6, 25))

\* Key 100 dated inside (2025-06-10) or outside (2025-06-25) the windows,
\* key 101 dated outside, key 102 dated inside in the hyphen encoding or
\* outside.
PipelineRecs ==
    { Rec(Key100, NameX, D0610), Rec(Key100, NameX, D0625),
      Rec(Key101, NameX, D0625),
      Rec(Key102, NameX, D0612), Rec(Key102, NameX, D0625) }

InitPipeline ==
    /\ pc = "start"
    /\ facility_type = NoType
    /\ now = NoDay
    /\ window \in {WindowText(w) : w \in PipelineWindows}
    /\ list1 \in SeqsUpTo(PipelineRecs, MaxRows)
    /\ list2 \in SeqsUpTo(PipelineRecs, MaxRows - Len(list1))
    /\ result = <<>>
    /\ earlier = NoRun
    /\ FetchIdle

DailyPipeline ==
    /\ pc = "start"
    /\ IsDailyWindow(window)
    /\ pc' = "fetch_medical_data_for_date_range"
    /\ result' = daily_pipeline(list1, list2, window[1], window[2])
    /\ UNCHANGED inputVars
    /\ UNCHANGED fetchVars

CollectAllFacilities ==
    /\ pc = "start"
    /\ pc' = "collect_all_facilities"
    /\ result' = collect_all_facilities(list1, list2, window[1], window[2])
    /\ UNCHANGED inputVars
    /\ UNCHANGED fetchVars

HospitalMain ==
    /\ pc = "start"
    /\ pc' = "main"
    /\ result' = hospital_main(list1, list2, window[1], window[2])
    /\ UNCHANGED inputVars
    /\ UNCHANGED fetchVars

NextPipeline ==
    \/ DailyPipeline
    \/ CollectAllFacilities
    \/ HospitalMain

SpecPipeline == InitPipeline /\ [][NextPipeline]_vars

Pipelines == {"fetch_medical_data_for_date_range", "collect_all_facilities", "main"}


UnlabelAll(list) == [i \in 1..Len(list) |-> Unlabel(list[i])]

\* The Deduplicator run over both streams first and the filter second, with
\* the merge and the filter of the pipeline named by pc.
DedupThenFilter ==
    IF pc = "fetch_medical_data_for_date_range"
    THEN filter_by_target_dates(
             merge_and_deduplicate(ConvertRows(list1), ConvertRows(list2)),
             window[1], window[2])
    ELSE IF pc = "collect_all_facilities"
    THEN filter_by_opening_date_integrated(collect_merge(list1, list2), window[1], window[2])
    ELSE SortByOpeningDate(
             filter_by_opening_date(main_merge(list1, list2), window[1], window[2]))

\* C4: pipeline order.  The output of each pipeline is the date-window filter
\* applied to the output of the Deduplicator run over both streams (the
\* stream labels aside).
C4_DedupThenFilter ==
    pc \in Pipelines => UnlabelAll(result) = UnlabelAll(DedupThenFilter)

\* The calendar day a well-formed permit date (YYYYMMDD or YYYY-MM-DD) denotes.
DayOf(raw) == strptime_api(Remove(raw, Hyphen))

DayNum(d) == d[1] * 10000 + d[2] * 100 + d[3]

\* The day lies in the window, chronologically.
DayInWindow(d) == DayNum(StartDay) <= DayNum(d) /\ DayNum(d) <= DayNum(EndDay)

\* A business key carries the same permit date wherever it occurs.
SameDatePerKey ==
    \A r1, r2 \in Range(list1 \o list2) :
        r1.mgtNo = r2.mgtNo => DayOf(r1.apvPermYmd) = DayOf(r2.apvPermYmd)

\* C5: end-to-end reconciliation.  When each business key carries one permit
\* date in both streams, a pipeline's output holds exactly one record for
\* every key dated inside the window, none for a key dated outside it, and
\* no record with any other key.
C5_EndToEnd ==
    (pc \in Pipelines /\ SameDatePerKey) =>
        /\ \A k \in KeysOf(list1 \o list2) :
               Len(WithKey(result, k)) =
                   IF DayInWindow(DayOf(WithKey(list1 \o list2, k)[1].apvPermYmd)) THEN 1 ELSE 0
        /\ \A i \in 1..Len(result) : result[i].mgtNo \in KeysOf(list1 \o list2)

\* C5 witness: the spec's scenario.  A = {100: 20250610, 101: 20250625},
\* B = {100: 20250610, 102: 2025-06-12}; the output is 100 (from A) and 102.
C5_Witness ==
    /\ pc = "collect_all_facilities"
    /\ window = WindowText(<<Day(2025, 6, 8), Day(2025, 6, 15)>>)
    /\ list1 = <<Rec(Key100, NameX, D0610), Rec(Key101, NameX, D0625)>>
    /\ list2 = <<Rec(Key100, NameX, D0610), Rec(Key102, NameX, D0612)>>
    /\ result = <<[Rec(Key100, NameX, D0610) EXCEPT !.src = LabelBgnEnd],
                  [Rec(Key102, NameX, D0612) EXCEPT !.src = LabelLastMod]>>

--------------------------------------------------------------------------
(* Pagination loops.  An action is one iteration of a loop: one request,   *)
(* the upstream's answer to it, and the loop's reaction.                   *)

\* The requested page size (100, 300, 500 or 1000 in the scripts), scaled.
PageSize == 2

\* Requests after which the loops that have no page limit are no longer
\* followed.
MaxProbe == 22

\* hospitalData.py, integratedMedicalData.py: pages per date range.
MAX_PAGES_PER_RANGE == 20

\* dailyMedicalDataCollector.py: `if page_index > 10`.
DailyMaxPages == 10

\* apiData.py: `if page_index > 10`.
ApiMaxPages == 10

\* A totalCount the upstream may report: three full pages.
ReportedTotal == 3 * PageSize

\* The answers without a page: a non-2xx status, a body that does not
\* parse, a transport error.
ErrorAnswers ==
    { [kind |-> k, n |-> 0, keep |-> 0, ctype |-> "xml", total |-> -1] :
        k \in {"status", "parse", "exception"} }

\* The answers to a loop that takes the rows as they are: n rows.
RawAnswers ==
    { [kind |-> "ok", n |-> n, keep |-> n, ctype |-> "xml", total |-> -1] :
        n \in 0..PageSize } \cup ErrorAnswers

\* The answers to _fetch_by_date_params: n rows, of which `keep` carry both
\* mgtNo and apvPermYmd.
DailyAnswers ==
    { a \in [kind : {"ok"}, n : 0..PageSize, keep : 0..PageSize,
             ctype : {"xml"}, total : {-1}] : a.keep <= a.n }
    \cup ErrorAnswers

\* The answers to _fetch_paginated_data: n rows, of which `keep` carry the
\* target date, in XML or JSON, with a totalCount (-1: none reported).
ApiAnswers ==
    { a \in [kind : {"ok"}, n : 0..PageSize, keep : 0..PageSize,
             ctype : {"xml", "json"}, total : {-1, 0, ReportedTotal}] :
        a.keep <= a.n }
    \cup ErrorAnswers

\* The last-page test that never fires.
LastPageNever(n, page_size) == FALSE

\* `if len(rows) < page_size`: the page is the last one of its window.
LastPage(n, page_size) == n < page_size

\* `if not rows` / `len(rows) == 0`.
NoRows(ans) == ans.n = 0

\* total_count as _fetch_paginated_data computes it for the page.
total_count(ans, page) ==
    IF ans.ctype = "xml"
    THEN IF page = 1
         THEN IF ans.total = -1 THEN ans.n ELSE ans.total
         ELSE 0
    ELSE IF ans.total = -1 THEN ans.n ELSE ans.total

\* date_ranges of fetch_medical_data_comprehensive: none in the explicit
\* mode; the primary range, the week before and the week after otherwise.
date_ranges(api_start, api_end, bgn_end) ==
    IF bgn_end THEN <<>>
    ELSE CHOOSE ranges \in
           { << <<api_start, api_end>>,
                <<format_date_for_api(AddDays(start_date, -7)),
                  format_date_for_api(AddDays(start_date, -1))>>,
                <<format_date_for_api(AddDays(start_date, 7)),
                  format_date_for_api(AddDays(start_date, 14))>> >> :
             start_date \in {strptime_api(api_start)} } : TRUE

\* int(text) of a text of decimal digits.
IntOf(text) == Num(text, 1, Len(text))

\* str(n).zfill(8), for 0 <= n < 10^8.
StrZfill8(n) == [i \in 1..8 |-> Digit((n \div (10 ^ (8 - i))) % 10)]

\* simple_fetch.fetch_data_last_mod: the windows handed, in this order, to
\* fetch_single_range_last_mod.
fetch_data_last_mod(start_date, end_date) ==
    << <<start_date, end_date>>,
       <<StrZfill8(IntOf(start_date) - 7), StrZfill8(IntOf(start_date) - 1)>>,
       <<StrZfill8(IntOf(end_date) + 1), StrZfill8(IntOf(end_date) + 7)>> >>

\* The request counter after one more request to window r.
Requested(r) ==
    [range |-> r, n |-> IF requests.range = r THEN requests.n + 1 ELSE 1,
     total |-> requests.total + 1]

\* The windows with a zero or short page, after answer ans to window r.
Closed(ans, r) ==
    IF ans.kind = "ok" /\ ans.n < PageSize THEN closed \cup {r} ELSE closed

\* _fetch_data with a parser that lets its parse error escape.
FetchDataParseRaises ==
    /\ pc = "loop"
    /\ fetcher = "_fetch_data"
    /\ page_index <= MaxProbe
    /\ \E ans \in RawAnswers :
        /\ last' = ans
        /\ requests' = Requested(range_index)
        /\ closed' = Closed(ans, range_index)
        /\ IF ans.kind # "ok" \/ NoRows(ans)
           THEN /\ all_data' = all_data
                /\ page_index' = page_index
                /\ pc' = IF ans.kind = "parse" THEN "raised" ELSE "done"
           ELSE /\ all_data' = all_data + ans.n
                /\ IF LastPage(ans.n, PageSize)
                   THEN page_index' = page_index /\ pc' = "done"
                   ELSE page_index' = page_index + 1 /\ pc' = "loop"
    /\ slept' = FALSE
    /\ UNCHANGED <<earlier, facility_type, now, list1, list2, window, result, fetcher, use_bgn_end, range_index>>

\* MedicalDataAPI._fetch_data
FetchData ==
    /\ pc = "loop"
    /\ fetcher = "_fetch_data"
    /\ page_index <= MaxProbe
    /\ \E ans \in RawAnswers :
        /\ last' = ans
        /\ requests' = Requested(range_index)
        /\ closed' = Closed(ans, range_index)
        /\ IF ans.kind # "ok" \/ NoRows(ans)
           THEN /\ all_data' = all_data
                /\ page_index' = page_index
                /\ pc' = "done"
           ELSE /\ all_data' = all_data + ans.n
                /\ IF LastPage(ans.n, PageSize)
                   THEN page_index' = page_index /\ pc' = "done"
                   ELSE page_index' = page_index + 1 /\ pc' = "loop"
    /\ slept' = FALSE
    /\ UNCHANGED <<earlier, facility_type, now, list1, list2, window, result, fetcher, use_bgn_end, range_index>>

\* MedicalDataAPI._fetch_data_range
FetchDataRange ==
    /\ pc = "loop"
    /\ fetcher = "_fetch_data_range"
    /\ page_index <= MaxProbe
    /\ \E ans \in RawAnswers :
        /\ last' = ans
        /\ requests' = Requested(range_index)
        /\ closed' = Closed(ans, range_index)
        /\ IF ans.kind # "ok" \/ NoRows(ans)
           THEN /\ all_data' = all_data
                /\ page_index' = page_index
                /\ pc' = "done"
           ELSE /\ all_data' = all_data + ans.n
                /\ IF LastPage(ans.n, PageSize)
                   THEN page_index' = page_index /\ pc' = "done"
                   ELSE page_index' = page_index + 1 /\ pc' = "loop"
    /\ slept' = FALSE
    /\ UNCHANGED <<earlier, facility_type, now, list1, list2, window, result, fetcher, use_bgn_end, range_index>>

\* MedicalDataAPI._fetch_data_with_lastmod
FetchDataWithLastmod ==
    /\ pc = "loop"
    /\ fetcher = "_fetch_data_with_lastmod"
    /\ page_index <= MaxProbe
    /\ \E ans \in RawAnswers :
        /\ last' = ans
        /\ requests' = Requested(range_index)
        /\ closed' = Closed(ans, range_index)
        /\ IF ans.kind # "ok" \/ NoRows(ans)
           THEN /\ all_data' = all_data
                /\ page_index' = page_index
                /\ pc' = "done"
           ELSE /\ all_data' = all_data + ans.n
                /\ IF LastPage(ans.n, PageSize)
                   THEN page_index' = page_index /\ pc' = "done"
                   ELSE page_index' = page_index + 1 /\ pc' = "loop"
    /\ slept' = FALSE
    /\ UNCHANGED <<earlier, facility_type, now, list1, list2, window, result, fetcher, use_bgn_end, range_index>>

\* simple_fetch.fetch_data_bgn_end
FetchDataBgnEnd ==
    /\ pc = "loop"
    /\ fetcher = "fetch_data_bgn_end"
    /\ page_index <= MaxProbe
    /\ \E ans \in RawAnswers :
        /\ last' = ans
        /\ requests' = Requested(range_index)
        /\ closed' = Closed(ans, range_index)
        /\ IF ans.kind # "ok" \/ NoRows(ans)
           THEN /\ all_data' = all_data
                /\ page_index' = page_index
                /\ pc' = "done"
           ELSE /\ all_data' = all_data + ans.n
                /\ IF LastPage(ans.n, PageSize)
                   THEN page_index' = page_index /\ pc' = "done"
                   ELSE page_index' = page_index + 1 /\ pc' = "loop"
    /\ slept' = FALSE
    /\ UNCHANGED <<earlier, facility_type, now, list1, list2, window, result, fetcher, use_bgn_end, range_index>>

\* simple_fetch.fetch_single_range_last_mod, as fetch_data_last_mod calls
\* it: once for each of its three windows, one call after the other.
FetchSingleRangeLastMod ==
    /\ pc = "loop"
    /\ fetcher = "fetch_single_range_last_mod"
    /\ page_index <= MaxProbe
    /\ \E ans \in RawAnswers :
        LET extended == ans.kind = "ok" /\ ~NoRows(ans)
            leave == ~extended \/ LastPage(ans.n, PageSize)
        IN  /\ last' = ans
            /\ requests' = Requested(range_index)
            /\ closed' = Closed(ans, range_index)
            /\ all_data' = IF extended THEN all_data + ans.n ELSE all_data
            /\ IF ~leave
               THEN /\ pc' = "loop"
                    /\ page_index' = page_index + 1
                    /\ range_index' = range_index
               ELSE IF range_index + 1 >= Len(fetch_data_last_mod(window[1], window[2]))
               THEN /\ pc' = "done"
                    /\ page_index' = page_index
                    /\ range_index' = range_index
               ELSE /\ pc' = "loop"
                    /\ page_index' = 1
                    /\ range_index' = range_index + 1
    /\ slept' = FALSE
    /\ UNCHANGED <<earlier, facility_type, now, list1, list2, window, result, fetcher, use_bgn_end>>

\* apiData.MedicalDataAPI._fetch_paginated_data
FetchPaginatedData ==
    /\ pc = "loop"
    /\ fetcher = "_fetch_paginated_data"
    /\ \E ans \in ApiAnswers :
        /\ last' = ans
        /\ requests' = Requested(range_index)
        /\ closed' = Closed(ans, range_index)
        /\ IF ans.kind # "ok"
           THEN /\ all_data' = all_data
                /\ page_index' = page_index
                /\ pc' = "done"
           ELSE /\ all_data' = all_data + ans.keep
                /\ IF \/ LastPage(ans.n, PageSize)
                      \/ /\ total_count(ans, page_index) > 0
                         /\ page_index * PageSize >= total_count(ans, page_index)
                   THEN page_index' = page_index /\ pc' = "done"
                   ELSE /\ page_index' = page_index + 1
                        /\ pc' = IF page_index + 1 > ApiMaxPages THEN "done" ELSE "loop"
    /\ slept' = (pc' = "loop")
    /\ UNCHANGED <<earlier, facility_type, now, list1, list2, window, result, fetcher, use_bgn_end, range_index>>

\* DailyMedicalDataCollector._fetch_by_date_params
FetchByDateParams ==
    /\ pc = "loop"
    /\ fetcher = "_fetch_by_date_params"
    /\ \E ans \in DailyAnswers :
        /\ last' = ans
        /\ requests' = Requested(range_index)
        /\ closed' = Closed(ans, range_index)
        /\ IF ans.kind # "ok" \/ NoRows(ans)
           THEN /\ all_data' = all_data
                /\ page_index' = page_index
                /\ pc' = "done"
           ELSE /\ all_data' = all_data + ans.keep
                /\ IF LastPage(ans.n, PageSize)
                   THEN page_index' = page_index /\ pc' = "done"
                   ELSE /\ page_index' = page_index + 1
                        /\ pc' = IF page_index + 1 > DailyMaxPages THEN "done" ELSE "loop"
    /\ slept' = (pc' = "loop")
    /\ UNCHANGED <<earlier, facility_type, now, list1, list2, window, result, fetcher, use_bgn_end, range_index>>

\* The comprehensive fetch with a page cursor that is not reset between
\* date ranges.
FetchMedicalDataComprehensiveNoRestart ==
    /\ pc = "loop"
    /\ fetcher = "hospitalData.fetch_medical_data_comprehensive"
    /\ \E ans \in RawAnswers :
        LET extended == ans.kind = "ok" /\ ~NoRows(ans)
            leave == \/ ~extended
                     \/ LastPage(ans.n, PageSize)
                     \/ page_index + 1 > MAX_PAGES_PER_RANGE
        IN  /\ last' = ans
            /\ requests' = Requested(range_index)
            /\ closed' = Closed(ans, range_index)
            /\ all_data' = IF extended THEN all_data + ans.n ELSE all_data
            /\ IF ans.kind = "exception"
               THEN /\ pc' = "raised"
                    /\ page_index' = page_index
                    /\ range_index' = range_index
               ELSE IF ~leave
               THEN /\ pc' = "loop"
                    /\ page_index' = page_index + 1
                    /\ range_index' = range_index
               ELSE IF use_bgn_end
               THEN /\ pc' = "done"
                    /\ page_index' = IF extended THEN page_index + 1 ELSE page_index
                    /\ range_index' = range_index
               ELSE /\ pc' = IF range_index + 1 >= Len(date_ranges(window[1], window[2], use_bgn_end))
                             THEN "done" ELSE "loop"
                    /\ page_index' = page_index + 1
                    /\ range_index' = range_index + 1
    /\ slept' = FALSE
    /\ UNCHANGED <<earlier, facility_type, now, list1, list2, window, result, fetcher, use_bgn_end>>

\* The loop with the page cap tested one page late.
FetchMedicalDataComprehensiveLateCap ==
    /\ pc = "loop"
    /\ fetcher = "hospitalData.fetch_medical_data_comprehensive"
    /\ \E ans \in RawAnswers :
        LET extended == ans.kind = "ok" /\ ~NoRows(ans)
            leave == \/ ~extended
                     \/ LastPage(ans.n, PageSize)
                     \/ page_index + 1 > MAX_PAGES_PER_RANGE + 1
        IN  /\ last' = ans
            /\ requests' = Requested(range_index)
            /\ closed' = Closed(ans, range_index)
            /\ all_data' = IF extended THEN all_data + ans.n ELSE all_data
            /\ IF ans.kind = "exception"
               THEN /\ pc' = "raised"
                    /\ page_index' = page_index
                    /\ range_index' = range_index
               ELSE IF ~leave
               THEN /\ pc' = "loop"
                    /\ page_index' = page_index + 1
                    /\ range_index' = range_index
               ELSE IF use_bgn_end
               THEN /\ pc' = "done"
                    /\ page_index' = IF extended THEN page_index + 1 ELSE page_index
                    /\ range_index' = range_index
               ELSE /\ pc' = IF range_index + 1 >= Len(date_ranges(window[1], window[2], use_bgn_end))
                             THEN "done" ELSE "loop"
                    /\ page_index' = 1
                    /\ range_index' = range_index + 1
    /\ slept' = FALSE
    /\ UNCHANGED <<earlier, facility_type, now, list1, list2, window, result, fetcher, use_bgn_end>>

\* hospitalData.fetch_medical_data_comprehensive.  A transport error is not
\* caught and leaves the function; in the last-modified mode every other
\* way out of a range moves to the next range, and the loop ends when the
\* ranges are used up.
FetchMedicalDataComprehensive ==
    /\ pc = "loop"
    /\ fetcher = "hospitalData.fetch_medical_data_comprehensive"
    /\ \E ans \in RawAnswers :
        LET extended == ans.kind = "ok" /\ ~NoRows(ans)
            leave == \/ ~extended
                     \/ LastPage(ans.n, PageSize)
                     \/ page_index + 1 > MAX_PAGES_PER_RANGE
        IN  /\ last' = ans
            /\ requests' = Requested(range_index)
            /\ closed' = Closed(ans, range_index)
            /\ all_data' = IF extended THEN all_data + ans.n ELSE all_data
            /\ IF ans.kind = "exception"
               THEN /\ pc' = "raised"
                    /\ page_index' = page_index
                    /\ range_index' = range_index
               ELSE IF ~leave
               THEN /\ pc' = "loop"
                    /\ page_index' = page_index + 1
                    /\ range_index' = range_index
               ELSE IF use_bgn_end
               THEN /\ pc' = "done"
                    /\ page_index' = IF extended THEN page_index + 1 ELSE page_index
                    /\ range_index' = range_index
               ELSE /\ pc' = IF range_index + 1 >= Len(date_ranges(window[1], window[2], use_bgn_end))
                             THEN "done" ELSE "loop"
                    /\ page_index' = 1
                    /\ range_index' = range_index + 1
    /\ slept' = FALSE
    /\ UNCHANGED <<earlier, facility_type, now, list1, list2, window, result, fetcher, use_bgn_end>>

\* integratedMedicalData.fetch_medical_data_comprehensive: the same loop,
\* per service id.
IntegratedFetchMedicalDataComprehensive ==
    /\ pc = "loop"
    /\ fetcher = "integratedMedicalData.fetch_medical_data_comprehensive"
    /\ \E ans \in RawAnswers :
        LET extended == ans.kind = "ok" /\ ~NoRows(ans)
            leave == \/ ~extended
                     \/ LastPage(ans.n, PageSize)
                     \/ page_index + 1 > MAX_PAGES_PER_RANGE
        IN  /\ last' = ans
            /\ requests' = Requested(range_index)
            /\ closed' = Closed(ans, range_index)
            /\ all_data' = IF extended THEN all_data + ans.n ELSE all_data
            /\ IF ans.kind = "exception"
               THEN /\ pc' = "raised"
                    /\ page_index' = page_index
                    /\ range_index' = range_index
               ELSE IF ~leave
               THEN /\ pc' = "loop"
                    /\ page_index' = page_index + 1
                    /\ range_index' = range_index
               ELSE IF use_bgn_end
               THEN /\ pc' = "done"
                    /\ page_index' = IF extended THEN page_index + 1 ELSE page_index
                    /\ range_index' = range_index
               ELSE /\ pc' = IF range_index + 1 >= Len(date_ranges(window[1], window[2], use_bgn_end))
                             THEN "done" ELSE "loop"
                    /\ page_index' = 1
                    /\ range_index' = range_index + 1
    /\ slept' = FALSE
    /\ UNCHANGED <<earlier, facility_type, now, list1, list2, window, result, fetcher, use_bgn_end>>

\* apiData: the keys of self.service_ids (pharmacy, clinic, hospital).
service_ids == {"pharmacy", "clinic", "hospital"}

\* The categories a caller may pass: the three of the table and one that
\* is not in it.
FacilityTypes == service_ids \cup {"dental"}

\* The category test that accepts everything.
AnyFacilityType(t) == TRUE

\* `facility_type not in self.service_ids`, negated.
ValidFacilityType(t) == t \in service_ids

\* apiData.MedicalDataAPI.fetch_data_by_date up to its first fetch: the
\* category is tested before anything else, and a category outside the
\* table raises ValueError.
FetchDataByDate ==
    /\ pc = "call"
    /\ fetcher = "_fetch_paginated_data"
    /\ pc' = IF ValidFacilityType(facility_type) THEN "loop" ELSE "raised"
    /\ UNCHANGED <<earlier, facility_type, now, list1, list2, window, result, fetcher, use_bgn_end,
                   page_index, range_index, all_data, last, requests, closed, slept>>

--------------------------------------------------------------------------
(* SpecFetch: every pagination loop against every upstream.                *)

\* The loops that take a query mode, and those that always query by
\* modification time.
TwoModeFetchers ==
    { "_fetch_by_date_params",
      "hospitalData.fetch_medical_data_comprehensive",
      "integratedMedicalData.fetch_medical_data_comprehensive" }

LastModFetchers == {"_fetch_data_with_lastmod", "fetch_single_range_last_mod"}

Fetchers ==
    { "_fetch_data", "_fetch_data_range", "fetch_data_bgn_end", "_fetch_paginated_data" }
    \cup TwoModeFetchers \cup LastModFetchers

InitFetch ==
    /\ fetcher \in Fetchers
    /\ pc = (IF fetcher = "_fetch_paginated_data" THEN "call" ELSE "loop")
    /\ facility_type \in (IF fetcher = "_fetch_paginated_data" THEN FacilityTypes
                          ELSE {NoType})
    /\ now = NoDay
    /\ use_bgn_end \in (IF fetcher \in TwoModeFetchers THEN BOOLEAN
                        ELSE {fetcher \notin LastModFetchers})
    /\ page_index = 1
    /\ range_index = 0
    /\ all_data = 0
    /\ last = NoAnswer
    /\ requests = [range |-> -1, n |-> 0, total |-> 0]
    /\ closed = {}
    /\ slept = FALSE
    /\ list1 = <<>>
    /\ list2 = <<>>
    /\ result = <<>>
    /\ earlier = NoRun
    /\ window = WindowText(<<Day(2025, 6, 8), Day(2025, 6, 13)>>)

NextFetch ==
    \/ FetchDataByDate
    \/ FetchData
    \/ FetchDataRange
    \/ FetchDataWithLastmod
    \/ FetchDataBgnEnd
    \/ FetchSingleRangeLastMod
    \/ FetchPaginatedData
    \/ FetchByDateParams
    \/ FetchMedicalDataComprehensive
    \/ IntegratedFetchMedicalDataComprehensive

SpecFetch == InitFetch /\ [][NextFetch]_vars

\* The page limit configured for a loop; for a loop that configures none,
\* the largest limit of the repository.
PageCap(f) ==
    IF f = "_fetch_by_date_params" THEN DailyMaxPages
    ELSE IF f = "_fetch_paginated_data" THEN ApiMaxPages
    ELSE MAX_PAGES_PER_RANGE

\* C9: page cap always enforced.  No pagination loop issues more requests
\* to one query window than a configured maximum page count, even when the
\* upstream answers every request with a full page.
C9_PageCapEnforced == requests.n <= PageCap(fetcher)

\* C10: last-page detection.  A request never goes to a query window in
\* which a page with zero records, or with fewer records than the page
\* size, has been answered; and when such a page is answered, its records
\* are added to the result and its window is left.
C10_LastPageDetection ==
    [][ /\ range_index \notin closed
        /\ (last'.kind = "ok" /\ last'.n < PageSize) =>
              /\ all_data' = all_data + last'.keep
              /\ range_index \in closed'
              /\ (pc' = "done" \/ range_index' > range_index) ]_vars

\* C10 witness: _fetch_data has taken a full page and then a short page of
\* one record, and has stopped with both pages in the result.
C10_Witness ==
    /\ fetcher = "_fetch_data"
    /\ pc = "done"
    /\ last.kind = "ok" /\ last.n = 1
    /\ requests = [range |-> 0, n |-> 2, total |-> 2]
    /\ all_data = PageSize + 1
    /\ closed = {0}

\* C11: transport failure is partial success.  When a request fails in
\* transport (non-success status, connection error, timeout), the fetch
\* does not raise: the requests to the current window end and the records
\* of the pages fetched before are kept for the return.
C11_TransportPartialSuccess ==
    [][ last' \in ErrorAnswers /\ last'.kind \in {"status", "exception"} =>
            /\ pc' # "raised"
            /\ all_data' = all_data
            /\ (pc' = "done" \/ range_index' > range_index) ]_vars

\* C12: parse failure is recoverable.  When the body of a page does not
\* parse, nothing is raised, the page adds no record, the requests to the
\* current window end, and the records of the earlier pages are kept.
C12_ParseFailureRecoverable ==
    [][ last'.kind = "parse" =>
            /\ pc' # "raised"
            /\ all_data' = all_data
            /\ (pc' = "done" \/ range_index' > range_index) ]_vars

\* C12 witness: _fetch_data has taken one full page, the second page did
\* not parse, and the loop has ended with the first page in the result.
C12_Witness ==
    /\ fetcher = "_fetch_data"
    /\ pc = "done"
    /\ last.kind = "parse"
    /\ requests = [range |-> 0, n |-> 2, total |-> 2]
    /\ all_data = PageSize

--------------------------------------------------------------------------
(* Query windows: the windows each script computes before it requests.     *)

\* apiData._fetch_by_permit_date: the window put into the request
\* parameters; an end after today is replaced by today.
fetch_by_permit_date(target_date, today) ==
    LET target_dt == strptime_api(target_date)
        start_dt == AddDays(target_dt, -7)
        end_dt == AddDays(target_dt, 7)
        clamped == IF DayNum(end_dt) > DayNum(today) THEN today ELSE end_dt
    IN << <<format_date_for_api(start_dt), format_date_for_api(clamped)>> >>

\* apiData._fetch_by_update_date: the window requested, none when the
\* start is after the end.
fetch_by_update_date(target_date, today) ==
    LET target_dt == strptime_api(target_date)
        later == AddDays(target_dt, 3)
        end_dt == IF DayNum(later) <= DayNum(today) THEN later ELSE today
    IN IF DayNum(target_dt) > DayNum(end_dt) THEN <<>>
       ELSE << <<format_date_for_api(target_dt), format_date_for_api(end_dt)>> >>

--------------------------------------------------------------------------
(* SpecRanges: the window computations on primary windows around the turn  *)
(* of a year.                                                              *)

\* The longest primary window, in days after its start.
MaxSpan == 8

\* The primary windows start on 2024-12-20 or up to MaxOffset days later.
MaxOffset == 23

FirstStart == Day(2024, 12, 20)

\* The days the clock may show.
Clocks == {Day(2024, 12, 25), Day(2025, 1, 20)}

InitRanges ==
    /\ pc = "start"
    /\ facility_type = NoType
    /\ now \in Clocks
    /\ \E k \in 0..MaxOffset, n \in 0..MaxSpan :
          window = WindowText(<<AddDays(FirstStart, k), AddDays(FirstStart, k + n)>>)
    /\ list1 = <<>>
    /\ list2 = <<>>
    /\ result = <<>>
    /\ earlier = NoRun
    /\ FetchIdle

\* hospitalData.fetch_medical_data_comprehensive, last-modified mode: the
\* date ranges built before the loop.
HospitalDateRanges ==
    /\ pc = "start"
    /\ pc' = "hospitalData.date_ranges"
    /\ result' = date_ranges(window[1], window[2], FALSE)
    /\ UNCHANGED inputVars
    /\ UNCHANGED fetchVars

\* integratedMedicalData.fetch_medical_data_comprehensive, the same.
IntegratedDateRanges ==
    /\ pc = "start"
    /\ pc' = "integratedMedicalData.date_ranges"
    /\ result' = date_ranges(window[1], window[2], FALSE)
    /\ UNCHANGED inputVars
    /\ UNCHANGED fetchVars

FetchDataLastMod ==
    /\ pc = "start"
    /\ pc' = "fetch_data_last_mod"
    /\ result' = fetch_data_last_mod(window[1], window[2])
    /\ UNCHANGED inputVars
    /\ UNCHANGED fetchVars

\* apiData._fetch_by_permit_date with the window's start as target date.
FetchByPermitDate ==
    /\ pc = "start"
    /\ pc' = "_fetch_by_permit_date"
    /\ result' = fetch_by_permit_date(window[1], now)
    /\ UNCHANGED inputVars
    /\ UNCHANGED fetchVars

\* apiData._fetch_by_update_date with the window's start as target date.
FetchByUpdateDate ==
    /\ pc = "start"
    /\ pc' = "_fetch_by_update_date"
    /\ result' = fetch_by_update_date(window[1], now)
    /\ UNCHANGED inputVars
    /\ UNCHANGED fetchVars

\* datetime.strptime(text, "%Y-%m-%d") of a YYYY-MM-DD text.
strptime_display(text) == <<Num(text, 1, 4), Num(text, 6, 7), Num(text, 9, 10)>>

\* date.toordinal(): the days from 0001-01-01, which is day 1.
DaysBeforeYear(y) ==
    (y - 1) * 365 + (y - 1) \div 4 - (y - 1) \div 100 + (y - 1) \div 400

RECURSIVE DaysBeforeMonth(_, _)
DaysBeforeMonth(y, m) ==
    IF m = 1 THEN 0 ELSE DaysBeforeMonth(y, m - 1) + DaysInMonth(y, m - 1)

toordinal(d) == DaysBeforeYear(d[1]) + DaysBeforeMonth(d[1], d[2]) + d[3]

\* date.weekday(): 0 is Monday.
weekday(d) == (toordinal(d) + 6) % 7

\* get_week_start_date on the parsed date, get_current_week_start on
\* today: the Monday of the week.
get_week_start_date(date) == AddDays(date, 0 - weekday(date))

\* calculate_date_range: the end is the start plus `days` days.
calculate_date_range(start_date, days) ==
    LET end_date == AddDays(start_date, days)
    IN << format_date_for_api(start_date), format_date_for_api(end_date),
          format_date_for_display(start_date), format_date_for_display(end_date) >>

\* The command line of a run, read off the window of the state: the date
\* given with --start-date or --week is the first day of the window, and
\* --days is the number of days of the window.
RECURSIVE DaysFromTo(_, _)
DaysFromTo(a, b) == IF a = b THEN 0 ELSE 1 + DaysFromTo(NextDay(a), b)

ArgDate == format_date_for_display(strptime_api(window[1]))

ArgDays == DaysFromTo(strptime_api(window[1]), strptime_api(window[2])) + 1

\* main with --start-date ArgDate --days ArgDays (hospitalData and
\* integratedMedicalData have the same code).
MainStartDate ==
    /\ pc = "start"
    /\ pc' = "main --start-date"
    /\ result' = calculate_date_range(strptime_display(ArgDate), ArgDays)
    /\ UNCHANGED inputVars
    /\ UNCHANGED fetchVars

\* main with --week ArgDate --days ArgDays.
MainWeek ==
    /\ pc = "start"
    /\ pc' = "main --week"
    /\ result' = calculate_date_range(get_week_start_date(strptime_display(ArgDate)),
                                      ArgDays)
    /\ UNCHANGED inputVars
    /\ UNCHANGED fetchVars

\* main with --current-week --days ArgDays.
MainCurrentWeek ==
    /\ pc = "start"
    /\ pc' = "main --current-week"
    /\ result' = calculate_date_range(get_week_start_date(now), ArgDays)
    /\ UNCHANGED inputVars
    /\ UNCHANGED fetchVars

NextRanges ==
    \/ HospitalDateRanges
    \/ IntegratedDateRanges
    \/ FetchDataLastMod
    \/ FetchByPermitDate
    \/ FetchByUpdateDate
    \/ MainStartDate
    \/ MainWeek
    \/ MainCurrentWeek

SpecRanges == InitRanges /\ [][NextRanges]_vars

\* The primary window, the 7 days before its start and the 7 days after
\* its end, by the calendar.
ExpandedWindows(start, end) ==
    LET s == strptime_api(start)
        e == strptime_api(end)
    IN << <<start, end>>,
          <<format_date_for_api(AddDays(s, -7)), format_date_for_api(AddDays(s, -1))>>,
          <<format_date_for_api(AddDays(e, 1)), format_date_for_api(AddDays(e, 7))>> >>

\* C13: Range Expander windows.  In last-modified mode
\* fetch_medical_data_comprehensive builds the primary window, then the 7
\* days immediately before its start, then the 7 days immediately after
\* its end (from end+1), and the following window does not overlap the
\* primary one.
C13_RangeExpanderWindows ==
    pc \in {"hospitalData.date_ranges", "integratedMedicalData.date_ranges"} =>
        /\ result = ExpandedWindows(window[1], window[2])
        /\ StrLess(window[2], result[3][1])

\* C14: window well-formedness in simple_fetch.  The windows that
\* fetch_data_last_mod queries are the primary window, the 7 calendar days
\* ending the day before its start and the 7 calendar days beginning the
\* day after its end, each a pair of valid 8-digit dates with start <= end.
C14_SimpleFetchWindows ==
    pc = "fetch_data_last_mod" => result = ExpandedWindows(window[1], window[2])

\* C15: inverted windows are skipped.  No window handed to the upstream
\* has its start after its end.
C15_NoInvertedWindow ==
    pc \in {"hospitalData.date_ranges", "integratedMedicalData.date_ranges",
            "fetch_data_last_mod", "_fetch_by_permit_date", "_fetch_by_update_date"} =>
        \A i \in 1..Len(result) : StrLeq(result[i][1], result[i][2])

\* C16: windows are consumed strictly in order.  Every request goes to the
\* current window and asks for the page that follows the pages already
\* requested from it (1, 2, 3, ...); the fetcher moves on only to the next
\* window, only after an empty page, a short page, the page cap or a
\* failure in the current one, and starts the next window at page 1.
C16_WindowsInOrder ==
    [][ /\ range_index' \in {range_index, range_index + 1}
        /\ requests' # requests =>
              /\ requests'.range = range_index
              /\ requests'.n = page_index
              /\ (range_index' = range_index /\ pc' = "loop") => page_index' = page_index + 1
        /\ range_index' = range_index + 1 =>
              /\ page_index' = 1
              /\ \/ last'.kind # "ok"
                 \/ last'.n < PageSize
                 \/ requests'.n >= PageCap(fetcher) ]_vars

\* C16 witness: the comprehensive fetch in last-modified mode has left the
\* primary window and has taken page 1 of the preceding window.
C16_Witness ==
    /\ fetcher = "hospitalData.fetch_medical_data_comprehensive"
    /\ ~use_bgn_end
    /\ pc = "loop"
    /\ range_index = 1
    /\ requests.range = 1
    /\ requests.n = 1
    /\ page_index = 2

\* C17: mandatory inter-call delay.  Every request but the first follows a
\* blocking delay made after the request before it.
C17_DelayBetweenRequests ==
    [][ requests' # requests => (last = NoAnswer \/ slept) ]_vars

\* C18: configuration errors fail first.  fetch_data_by_date raises for a
\* facility category outside the service-id table, and then before any
\* request has been issued; with a category of the table nothing makes it
\* raise: not a transport failure, not a body that does not parse, not
\* rows without key or with another or a malformed date.
C18_ConfigurationErrorFirst ==
    fetcher = "_fetch_paginated_data" =>
        IF facility_type \in service_ids
        THEN pc # "raised"
        ELSE pc \in {"call", "raised"} /\ requests.n = 0 /\ last = NoAnswer

\* C18 witness: called with a category that is not in the table, it has
\* raised and no request has been issued.
C18_Witness ==
    /\ fetcher = "_fetch_paginated_data"
    /\ facility_type = "dental"
    /\ pc = "raised"
    /\ requests.n = 0

--------------------------------------------------------------------------
(* Normalizers: from a response body to a list of rows.                    *)
(*                                                                         *)
(* A markup body is the sequence, in document order, of the elements that  *)
(* a search finds in it: each with its tag, its place (directly under the  *)
(* root, or under body/rows) and its children; a child has a tag and a     *)
(* text (None when the element has no text).                               *)

\* root.findall('.//tag'): the elements with this tag, wherever they are.
findall(elements, tag_name) == SelectSeq(elements, LAMBDA e : e.tag = tag_name)

\* body.find('rows').findall('row'): the row elements under body/rows.
findall_body_rows(elements) ==
    SelectSeq(elements, LAMBDA e : e.tag = "row" /\ e.place = "body/rows")

\* _parse_xml_response: the first of the candidate tags that finds an
\* element; then the rows under body/rows.
RECURSIVE FirstMatch(_, _)
FirstMatch(elements, tags) ==
    IF tags = <<>> THEN <<>>
    ELSE IF findall(elements, Head(tags)) # <<>> THEN findall(elements, Head(tags))
    ELSE FirstMatch(elements, Tail(tags))

\* The child's text as it is.
RawText(text) == text

\* MedicalData: `child.text.strip()` if the text is not None, else "".
StrippedText(text) == IF text # None THEN Strip(text) ELSE <<>>

\* apiData, dailyMedicalDataCollector: `child.text if child.text else ""`.
TextOrEmpty(text) == IF Truthy(text) THEN text ELSE <<>>

\* MedicalData: the dict of one item, child by child.
RECURSIVE ItemToDict(_, _)
ItemToDict(children, data) ==
    IF children = <<>> THEN data
    ELSE ItemToDict(Tail(children),
                    DictSet(data, Head(children).tag, StrippedText(Head(children).text)))

\* apiData, dailyMedicalDataCollector: the dict of one row, child by child.
RECURSIVE RowToDict(_, _)
RowToDict(children, row_dict) ==
    IF children = <<>> THEN row_dict
    ELSE RowToDict(Tail(children),
                   DictSet(row_dict, Head(children).tag, TextOrEmpty(Head(children).text)))

\* MedicalData.MedicalDataAPI._parse_xml_response on a body that parses.
parse_xml_response(elements) ==
    LET found == FirstMatch(elements, <<"row", "item", "result", "data">>)
        items == IF found = <<>> THEN findall_body_rows(elements) ELSE found
    IN [i \in 1..Len(items) |-> ItemToDict(items[i].children, <<>>)]

\* apiData._fetch_paginated_data and _fetch_by_date_params, XML branch.
xml_rows_to_dicts(elements) ==
    LET xml_rows == findall(elements, "row")
    IN [i \in 1..Len(xml_rows) |-> RowToDict(xml_rows[i].children, <<>>)]

\* An object-notation body is its envelope and what the envelope carries
\* where the rows are expected: a list of records (payload "list") or one
\* record, an object, in its place (payload "object").  "list" is a bare
\* list of rows, "result.body.rows[0].row" is
\* {"result": {"body": {"rows": [{"row": rows}]}}}, "result.body.rows" is
\* {"result": {"body": {"rows": rows}}}, "result.body" is
\* {"result": {"body": rows}}, "body" is {"body": rows}, "row" is
\* {"row": rows}, "localdata" is {"localdata": rows}.  The records carry
\* none of the keys "rows", "row", "@class".
Envelopes ==
    { "list", "result.body.rows[0].row", "result.body.rows", "result.body",
      "body", "row", "localdata" }

\* `if not isinstance(rows, list): rows = [rows] if rows else []`.
CoerceToList(payload, rows) ==
    IF payload = "list" THEN rows
    ELSE IF rows # <<>> THEN <<rows>> ELSE <<>>

\* DailyMedicalDataCollector._extract_rows_from_response.  On a list the
\* tests `"result" in data`, `"body" in data`, `"row" in data` look for an
\* element equal to the text, and find none among rows.  Under
\* result.body.rows only a non-empty list is taken; a body that is an
\* object without "rows" is itself the one row.
extract_rows_from_response(data) ==
    IF data.envelope = "result.body.rows[0].row"
    THEN CoerceToList(data.payload, data.rows)
    ELSE IF data.envelope = "result.body.rows"
    THEN IF data.payload = "list" THEN data.rows ELSE <<>>
    ELSE IF data.envelope = "result.body"
    THEN IF data.payload = "list" THEN data.rows ELSE <<data.rows>>
    ELSE IF data.envelope = "body" THEN CoerceToList(data.payload, data.rows)
    ELSE IF data.envelope = "row" THEN CoerceToList(data.payload, data.rows)
    ELSE <<>>

\* apiData._fetch_paginated_data, the rows of a JSON body: the same cases
\* and "localdata"; under result.body.rows what is not a list is wrapped.
api_extract_rows(data) ==
    IF data.envelope = "result.body.rows[0].row"
    THEN CoerceToList(data.payload, data.rows)
    ELSE IF data.envelope = "result.body.rows"
    THEN IF data.payload = "list" THEN data.rows ELSE <<data.rows>>
    ELSE IF data.envelope = "result.body"
    THEN IF data.payload = "list" THEN data.rows ELSE <<data.rows>>
    ELSE IF data.envelope = "body" THEN CoerceToList(data.payload, data.rows)
    ELSE IF data.envelope = "row" THEN CoerceToList(data.payload, data.rows)
    ELSE IF data.envelope = "localdata" THEN CoerceToList(data.payload, data.rows)
    ELSE <<>>

--------------------------------------------------------------------------
(* SpecNormalize: the normalizers on bounded bodies.                       *)

\* Elements of a markup body, rows of an object-notation body.
MaxItems == 3

Child(tag, text) == [tag |-> tag, text |-> text]

\* An item without children, one with a text and an absent text, one with
\* a padded text and an empty text.
ChildLists ==
    { <<>>,
      <<Child("mgtNo", Key100), Child("bplcNm", None)>>,
      <<Child("mgtNo", <<Space>> \o Key101 \o <<Space>>), Child("bplcNm", <<>>)>> }

Elements ==
    [tag : {"row", "item"}, place : {"root", "body/rows"}, children : ChildLists]

\* Flat records, as dicts.
FlatRows ==
    { << <<"mgtNo", Key100>>, <<"apvPermYmd", D0610>> >>,
      << <<"mgtNo", Key101>>, <<"apvPermYmd", <<>> >> >>,
      << <<"bplcNm", NameX>> >> }

InitNormalize ==
    /\ pc = "start"
    /\ facility_type = NoType
    /\ now = NoDay
    /\ \/ list1 \in [format : {"xml"}, elements : SeqsUpTo(Elements, MaxItems)]
       \/ list1 \in [format : {"json"}, envelope : Envelopes, payload : {"list"},
                       rows : SeqsUpTo(FlatRows, MaxItems)]
       \/ list1 \in [format : {"json"}, envelope : Envelopes \ {"list"}, payload : {"object"},
                       rows : FlatRows \cup {<<>>}]
    /\ list2 = <<>>
    /\ window = NoWindow
    /\ result = <<>>
    /\ earlier = NoRun
    /\ FetchIdle

ParseXmlResponse ==
    /\ pc = "start"
    /\ list1.format = "xml"
    /\ pc' = "_parse_xml_response"
    /\ result' = parse_xml_response(list1.elements)
    /\ UNCHANGED inputVars
    /\ UNCHANGED fetchVars

\* apiData._fetch_paginated_data, XML branch.
ApiXmlRows ==
    /\ pc = "start"
    /\ list1.format = "xml"
    /\ pc' = "_fetch_paginated_data.xml"
    /\ result' = xml_rows_to_dicts(list1.elements)
    /\ UNCHANGED inputVars
    /\ UNCHANGED fetchVars

\* DailyMedicalDataCollector._fetch_by_date_params, XML branch.
DailyXmlRows ==
    /\ pc = "start"
    /\ list1.format = "xml"
    /\ pc' = "_fetch_by_date_params.xml"
    /\ result' = xml_rows_to_dicts(list1.elements)
    /\ UNCHANGED inputVars
    /\ UNCHANGED fetchVars

ExtractRowsFromResponse ==
    /\ pc = "start"
    /\ list1.format = "json"
    /\ pc' = "_extract_rows_from_response"
    /\ result' = extract_rows_from_response(list1)
    /\ UNCHANGED inputVars
    /\ UNCHANGED fetchVars

\* apiData._fetch_paginated_data, JSON branch.
ApiExtractRows ==
    /\ pc = "start"
    /\ list1.format = "json"
    /\ pc' = "_fetch_paginated_data.json"
    /\ result' = api_extract_rows(list1)
    /\ UNCHANGED inputVars
    /\ UNCHANGED fetchVars

NextNormalize ==
    \/ ParseXmlResponse
    \/ ApiXmlRows
    \/ DailyXmlRows
    \/ ExtractRowsFromResponse
    \/ ApiExtractRows

SpecNormalize == InitNormalize /\ [][NextNormalize]_vars

\* The item elements a markup normalizer is to take: for
\* _parse_xml_response the rows if there is one, else the items; for the
\* XML branches of the fetch loops the rows.
ItemsToTake ==
    IF pc = "_parse_xml_response" /\ findall(list1.elements, "row") = <<>>
    THEN findall(list1.elements, "item")
    ELSE findall(list1.elements, "row")

C20_DirectListIdempotent ==
    (pc \in {"_extract_rows_from_response", "_fetch_paginated_data.json"}
        /\ list1.envelope = "list") =>
        result = list1.rows

\* C21: bare-object coercion.  In each envelope shape the object-notation
\* normalizer supports (result.body.rows, result.body.rows[0].row,
\* result.body, top-level body, top-level row), when one non-empty object
\* stands where the list of rows is expected, the normalizer returns the
\* one-element sequence holding that object.
C21_BareObjectCoercion ==
    (pc \in {"_extract_rows_from_response", "_fetch_paginated_data.json"}
        /\ list1.payload = "object"
        /\ list1.rows # <<>>
        /\ list1.envelope \in {"result.body.rows", "result.body.rows[0].row",
                               "result.body", "body", "row"}) =>
        result = <<list1.rows>>

--------------------------------------------------------------------------
(* Facility classifier: the medical subjects inferred from the business    *)
(* name and the business type.  Texts are sequences of code points.        *)

\* `keyword in business_name`: the keyword occurs as a substring.
IsSubstring(keyword, business_name) ==
    \E i \in 0..(Len(business_name) - Len(keyword)) :
        SubSeq(business_name, i + 1, i + Len(keyword)) = keyword

Comma == 44

\* sep.join(list)
RECURSIVE Join(_, _)
Join(list, sep) ==
    IF list = <<>> THEN <<>>
    ELSE IF Len(list) = 1 THEN list[1]
    ELSE list[1] \o sep \o Join(Tail(list), sep)

\* dict[k] of a key the dict has.
DictGet(dict, k) == dict[CHOOSE i \in 1..Len(dict) : dict[i][1] = k][2]

\* integratedMedicalData.FIXED_MEDICAL_SUBJECTS, business type to subject:
\*   치과의원 -> 치과
\*   치과병원 -> 치과
\*   한의원 -> 한의학
\*   한방병원 -> 한의학
\*   요양병원(일반요양병원) -> 재활의학과
\*   정신병원 -> 정신건강의학과
\*   보건소 -> 예방의학과
\*   보건지소 -> 가정의학과
\*   보건진료소 -> 가정의학과
\*   조산원 -> 산부인과
\*   약국 -> (empty)
FIXED_MEDICAL_SUBJECTS ==
    << <<<<52824, 44284, 51032, 50896>>, <<52824, 44284>>>>,
       <<<<52824, 44284, 48337, 50896>>, <<52824, 44284>>>>,
       <<<<54620, 51032, 50896>>, <<54620, 51032, 54617>>>>,
       <<<<54620, 48169, 48337, 50896>>, <<54620, 51032, 54617>>>>,
       <<<<50836, 50577, 48337, 50896, 40, 51068, 48152, 50836, 50577, 48337, 50896, 41>>, <<51116, 54876, 51032, 54617, 44284>>>>,
       <<<<51221, 49888, 48337, 50896>>, <<51221, 49888, 44148, 44053, 51032, 54617, 44284>>>>,
       <<<<48372, 44148, 49548>>, <<50696, 48169, 51032, 54617, 44284>>>>,
       <<<<48372, 44148, 51648, 49548>>, <<44032, 51221, 51032, 54617, 44284>>>>,
       <<<<48372, 44148, 51652, 47308, 49548>>, <<44032, 51221, 51032, 54617, 44284>>>>,
       <<<<51312, 49328, 50896>>, <<49328, 48512, 51064, 44284>>>>,
       <<<<50557, 44397>>, <<>>>> >>

\* integratedMedicalData.MEDICAL_SUBJECT_KEYWORDS, in priority order:
\*   내분비내과, 소화기내과, 순환기내과, 호흡기내과, 신장내과, 혈액내과
\*   감염내과, 류마티스내과, 내과, 성형외과, 정형외과, 신경외과
\*   흉부외과, 심장외과, 간담췌외과, 대장항문외과, 유방외과, 외과
\*   산부인과, 소아청소년과, 소아과, 청소년과, 정신건강의학과, 정신과
\*   가정의학과, 응급의학과, 재활의학과, 영상의학과, 병리과, 진단검사의학과
\*   마취통증의학과, 예방의학과, 직업환경의학과, 안과, 이비인후과, 피부과
\*   비뇨의학과, 비뇨기과, 신경과, 결핵과, 핵의학과, 방사선종양학과
MEDICAL_SUBJECT_KEYWORDS ==
    << <<45236, 48516, 48708, 45236, 44284>>,
       <<49548, 54868, 44592, 45236, 44284>>,
       <<49692, 54872, 44592, 45236, 44284>>,
       <<54840, 55137, 44592, 45236, 44284>>,
       <<49888, 51109, 45236, 44284>>,
       <<54792, 50529, 45236, 44284>>,
       <<44048, 50684, 45236, 44284>>,
       <<47448, 47560, 54000, 49828, 45236, 44284>>,
       <<45236, 44284>>,
       <<49457, 54805, 50808, 44284>>,
       <<51221, 54805, 50808, 44284>>,
       <<49888, 44221, 50808, 44284>>,
       <<55113, 48512, 50808, 44284>>,
       <<49900, 51109, 50808, 44284>>,
       <<44036, 45812, 52684, 50808, 44284>>,
       <<45824, 51109, 54637, 47928, 50808, 44284>>,
       <<50976, 48169, 50808, 44284>>,
       <<50808, 44284>>,
       <<49328, 48512, 51064, 44284>>,
       <<49548, 50500, 52397, 49548, 45380, 44284>>,
       <<49548, 50500, 44284>>,
       <<52397, 49548, 45380, 44284>>,
       <<51221, 49888, 44148, 44053, 51032, 54617, 44284>>,
       <<51221, 49888, 44284>>,
       <<44032, 51221, 51032, 54617, 44284>>,
       <<51025, 44553, 51032, 54617, 44284>>,
       <<51116, 54876, 51032, 54617, 44284>>,
       <<50689, 49345, 51032, 54617, 44284>>,
       <<48337, 47532, 44284>>,
       <<51652, 45800, 44160, 49324, 51032, 54617, 44284>>,
       <<47560, 52712, 53685, 51613, 51032, 54617, 44284>>,
       <<50696, 48169, 51032, 54617, 44284>>,
       <<51649, 50629, 54872, 44221, 51032, 54617, 44284>>,
       <<50504, 44284>>,
       <<51060, 48708, 51064, 54980, 44284>>,
       <<54588, 48512, 44284>>,
       <<48708, 45544, 51032, 54617, 44284>>,
       <<48708, 45544, 44592, 44284>>,
       <<49888, 44221, 44284>>,
       <<44208, 54645, 44284>>,
       <<54645, 51032, 54617, 44284>>,
       <<48169, 49324, 49440, 51333, 50577, 54617, 44284>> >>

\* dailyMedicalDataCollector.MEDICAL_SUBJECT_KEYWORDS, subject to keywords,
\* in the order of the dict:
\*   내과: 내과
\*   소아청소년과: 소아, 소아청소년, 소아과
\*   정형외과: 정형외과, 정형
\*   피부과: 피부과, 피부
\*   이비인후과: 이비인후과, 이비, 코, 귀
\*   안과: 안과, 눈
\*   비뇨기과: 비뇨기과, 비뇨
\*   산부인과: 산부인과, 산부, 여성의원, 여성
\*   정신건강의학과: 정신과, 정신건강, 정신
\*   재활의학과: 재활의학과, 재활
\*   가정의학과: 가정의학과, 가정
\*   신경과: 신경과
\*   신경외과: 신경외과
\*   외과: 외과
\*   성형외과: 성형외과, 성형
\*   마취통증의학과: 마취통증, 통증의학과, 통증, 페인
\*   치과: 치과
\*   한의원: 한의원, 한방, 한의과
DAILY_MEDICAL_SUBJECT_KEYWORDS ==
    << <<<<45236, 44284>>, <<<<45236, 44284>>>> >>,
       <<<<49548, 50500, 52397, 49548, 45380, 44284>>, <<<<49548, 50500>>, <<49548, 50500, 52397, 49548, 45380>>, <<49548, 50500, 44284>>>> >>,
       <<<<51221, 54805, 50808, 44284>>, <<<<51221, 54805, 50808, 44284>>, <<51221, 54805>>>> >>,
       <<<<54588, 48512, 44284>>, <<<<54588, 48512, 44284>>, <<54588, 48512>>>> >>,
       <<<<51060, 48708, 51064, 54980, 44284>>, <<<<51060, 48708, 51064, 54980, 44284>>, <<51060, 48708>>, <<53076>>, <<44480>>>> >>,
       <<<<50504, 44284>>, <<<<50504, 44284>>, <<45576>>>> >>,
       <<<<48708, 45544, 44592, 44284>>, <<<<48708, 45544, 44592, 44284>>, <<48708, 45544>>>> >>,
       <<<<49328, 48512, 51064, 44284>>, <<<<49328, 48512, 51064, 44284>>, <<49328, 48512>>, <<50668, 49457, 51032, 50896>>, <<50668, 49457>>>> >>,
       <<<<51221, 49888, 44148, 44053, 51032, 54617, 44284>>, <<<<51221, 49888, 44284>>, <<51221, 49888, 44148, 44053>>, <<51221, 49888>>>> >>,
       <<<<51116, 54876, 51032, 54617, 44284>>, <<<<51116, 54876, 51032, 54617, 44284>>, <<51116, 54876>>>> >>,
       <<<<44032, 51221, 51032, 54617, 44284>>, <<<<44032, 51221, 51032, 54617, 44284>>, <<44032, 51221>>>> >>,
       <<<<49888, 44221, 44284>>, <<<<49888, 44221, 44284>>>> >>,
       <<<<49888, 44221, 50808, 44284>>, <<<<49888, 44221, 50808, 44284>>>> >>,
       <<<<50808, 44284>>, <<<<50808, 44284>>>> >>,
       <<<<49457, 54805, 50808, 44284>>, <<<<49457, 54805, 50808, 44284>>, <<49457, 54805>>>> >>,
       <<<<47560, 52712, 53685, 51613, 51032, 54617, 44284>>, <<<<47560, 52712, 53685, 51613>>, <<53685, 51613, 51032, 54617, 44284>>, <<53685, 51613>>, <<54168, 51064>>>> >>,
       <<<<52824, 44284>>, <<<<52824, 44284>>>> >>,
       <<<<54620, 51032, 50896>>, <<<<54620, 51032, 50896>>, <<54620, 48169>>, <<54620, 51032, 44284>>>> >> >>

\* 약국
Pharmacy == <<50557, 44397>>
\* 병원
Hospital == <<48337, 50896>>
\* 의원
Clinic == <<51032, 50896>>
\* 일반의원
GeneralClinic == <<51068, 48152, 51032, 50896>>
\* 한의원
OrientalClinic == <<54620, 51032, 50896>>
\* 치과의원
DentalClinic == <<52824, 44284, 51032, 50896>>
\* 서울
Seoul == <<49436, 50872>>
\* 정형외과
Orthopedics == <<51221, 54805, 50808, 44284>>
\* 내분비내과
Endocrinology == <<45236, 48516, 48708, 45236, 44284>>
\* 내과
Internal == <<45236, 44284>>
\* 통증
Pain == <<53685, 51613>>
\* The scan cut short: the first keyword of the priority list that occurs.
first_found_subject(business_name) ==
    LET found == SelectSeq(MEDICAL_SUBJECT_KEYWORDS,
                           LAMBDA keyword : IsSubstring(keyword, business_name))
    IN IF found = <<>> THEN <<>> ELSE <<found[1]>>

\* integratedMedicalData.extract_medical_subjects, the scan: every keyword
\* of the priority list that occurs in the name, in the order of the list.
found_subjects(business_name) ==
    SelectSeq(MEDICAL_SUBJECT_KEYWORDS,
              LAMBDA keyword : IsSubstring(keyword, business_name))

\* The keyword scan placed before the lookup of the business type.
extract_medical_subjects_keywords_first(business_name, business_type) ==
    IF Truthy(business_name) /\ found_subjects(business_name) # <<>>
    THEN Join(found_subjects(business_name), <<Comma>>)
    ELSE IF HasKey(FIXED_MEDICAL_SUBJECTS, business_type)
    THEN DictGet(FIXED_MEDICAL_SUBJECTS, business_type)
    ELSE <<>>

\* integratedMedicalData.extract_medical_subjects.
extract_medical_subjects(business_name, business_type) ==
    IF HasKey(FIXED_MEDICAL_SUBJECTS, business_type)
    THEN DictGet(FIXED_MEDICAL_SUBJECTS, business_type)
    ELSE IF Truthy(business_name) /\ found_subjects(business_name) # <<>>
    THEN Join(found_subjects(business_name), <<Comma>>)
    ELSE <<>>

\* dailyMedicalDataCollector: the subjects one of whose keywords occurs in
\* the name, in the order of the dict (a subject is a key, so it is found
\* once).
daily_found_subjects(business_name) ==
    LET entries == SelectSeq(DAILY_MEDICAL_SUBJECT_KEYWORDS,
                       LAMBDA entry : \E j \in 1..Len(entry[2]) :
                                          IsSubstring(entry[2][j], business_name))
    IN [i \in 1..Len(entries) |-> entries[i][1]]

\* DailyMedicalDataCollector.extract_medical_subjects.
daily_extract_medical_subjects(business_name, business_type) ==
    IF ~Truthy(business_name) THEN <<>>
    ELSE IF business_type = Pharmacy THEN <<>>
    ELSE IF business_type = Hospital
    THEN IF daily_found_subjects(business_name) # <<>>
         THEN daily_found_subjects(business_name)[1]
         ELSE <<>>
    ELSE IF daily_found_subjects(business_name) # <<>>
    THEN Join(daily_found_subjects(business_name), <<Comma, Space>>)
    ELSE IF business_type = Clinic /\ IsSubstring(Clinic, business_name)
    THEN GeneralClinic
    ELSE <<>>

--------------------------------------------------------------------------
(* SpecClassify: the classifiers on bounded names and business types.      *)
(* list1 is the business name, list2 the business type.                    *)

\* Parts a business name is made of.
MaxNameParts == 2

NameParts ==
    { Seoul, Orthopedics, Endocrinology, Pain, Clinic, OrientalClinic, Pharmacy }

BusinessNames ==
    {None} \cup {Join(parts, <<>>) : parts \in SeqsUpTo(NameParts, MaxNameParts)}

BusinessTypes == { None, <<>>, Clinic, Hospital, Pharmacy, OrientalClinic, DentalClinic }

InitClassify ==
    /\ pc = "start"
    /\ facility_type = NoType
    /\ now = NoDay
    /\ list1 \in BusinessNames
    /\ list2 \in BusinessTypes
    /\ window = NoWindow
    /\ result = <<>>
    /\ earlier = NoRun
    /\ FetchIdle

ExtractMedicalSubjects ==
    /\ pc = "start"
    /\ pc' = "extract_medical_subjects"
    /\ result' = extract_medical_subjects(list1, list2)
    /\ UNCHANGED inputVars
    /\ UNCHANGED fetchVars

DailyExtractMedicalSubjects ==
    /\ pc = "start"
    /\ pc' = "DailyMedicalDataCollector.extract_medical_subjects"
    /\ result' = daily_extract_medical_subjects(list1, list2)
    /\ UNCHANGED inputVars
    /\ UNCHANGED fetchVars

NextClassify ==
    \/ ExtractMedicalSubjects
    \/ DailyExtractMedicalSubjects

SpecClassify == InitClassify /\ [][NextClassify]_vars

\* C22: classifier override precedence.  Whenever the business type is an
\* entry of the fixed type-to-subject table, extract_medical_subjects
\* returns the table's value for that type, whatever keywords occur in the
\* business name; for the pharmacy type both classifiers return the empty
\* string for every business name.
C22_OverridePrecedence ==
    /\ (pc = "extract_medical_subjects" /\ HasKey(FIXED_MEDICAL_SUBJECTS, list2)) =>
          \E i \in 1..Len(FIXED_MEDICAL_SUBJECTS) :
              /\ FIXED_MEDICAL_SUBJECTS[i][1] = list2
              /\ result = FIXED_MEDICAL_SUBJECTS[i][2]
    /\ (pc \in {"extract_medical_subjects",
                "DailyMedicalDataCollector.extract_medical_subjects"}
           /\ list2 = Pharmacy) =>
          result = <<>>

\* C22 witness: the business type is the oriental clinic of the table and
\* the name carries the keywords of orthopedics; the table's subject is
\* returned.
C22_Witness ==
    /\ pc = "extract_medical_subjects"
    /\ list2 = OrientalClinic
    /\ list1 = Orthopedics \o OrientalClinic
    /\ result = FIXED_MEDICAL_SUBJECTS[3][2]
    /\ result # <<>>

\* str.split(c): the pieces between the occurrences of c.
RECURSIVE Split(_, _)
Split(s, c) ==
    IF ~Contains(s, c) THEN <<s>>
    ELSE LET i == CHOOSE i \in 1..Len(s) : s[i] = c /\ \A j \in 1..(i - 1) : s[j] # c
         IN <<SubSeq(s, 1, i - 1)>> \o Split(SubSeq(s, i + 1, Len(s)), c)

\* The places in the priority list of the keywords that occur in the name.
Occurring == {k \in 1..Len(MEDICAL_SUBJECT_KEYWORDS) :
                 IsSubstring(MEDICAL_SUBJECT_KEYWORDS[k], list1)}

\* C23: classifier keyword collection.  When the business type is not an
\* override type, extract_medical_subjects returns the join of exactly the
\* keywords of the priority list that occur in the business name: every
\* one of them, each once, in the order of the priority list.
C23_KeywordCollection ==
    (pc = "extract_medical_subjects" /\ ~HasKey(FIXED_MEDICAL_SUBJECTS, list2)) =>
        LET parts == IF result = <<>> THEN <<>> ELSE Split(result, Comma)
        IN /\ Len(parts) = Cardinality(Occurring)
           /\ \A i \in 1..Len(parts) :
                 \E k \in Occurring : parts[i] = MEDICAL_SUBJECT_KEYWORDS[k]
           /\ \A i, j \in 1..Len(parts) :
                 i < j => \E k1, k2 \in Occurring :
                              /\ k1 < k2
                              /\ parts[i] = MEDICAL_SUBJECT_KEYWORDS[k1]
                              /\ parts[j] = MEDICAL_SUBJECT_KEYWORDS[k2]

\* C23 witness: a clinic whose name carries two keywords twice over
\* (orthopedics, and surgery inside it); both are returned, each once, in
\* the order of the list.
C23_Witness ==
    /\ pc = "extract_medical_subjects"
    /\ list2 = Clinic
    /\ list1 = Orthopedics \o Orthopedics
    /\ Cardinality(Occurring) = 2
    /\ result = Orthopedics \o <<Comma>> \o SubSeq(Orthopedics, 3, 4)

\* C24: classifier fallback.  Without an override and without a keyword
\* match, both classifiers return the generic label when the category is
\* the clinic category and the name contains the clinic marker, and the
\* empty string in every other case.
C24_Fallback ==
    LET integrated == pc = "extract_medical_subjects"
        override == IF integrated THEN HasKey(FIXED_MEDICAL_SUBJECTS, list2)
                    ELSE list2 = Pharmacy
        matched == /\ Truthy(list1)
                   /\ IF integrated THEN Occurring # {}
                      ELSE daily_found_subjects(list1) # <<>>
    IN (pc \in {"extract_medical_subjects",
                "DailyMedicalDataCollector.extract_medical_subjects"}
           /\ ~override /\ ~matched) =>
          result = IF list2 = Clinic /\ Truthy(list1) /\ IsSubstring(Clinic, list1)
                   THEN GeneralClinic
                   ELSE <<>>

--------------------------------------------------------------------------
(* Further claims about the deduplication steps (SpecMerge).               *)

\* Every deduplication step, simple_fetch's included.
AllDedupSteps == DedupSteps \cup {"remove_duplicates"}

\* C25: the business key is the sole identity.  In every deduplication
\* step two records are duplicates exactly when their business keys are
\* equal: of input records that all carry a key, the output keeps as many
\* records as there are distinct keys, so records with equal keys are
\* collapsed and records with different keys never are.
C25_BusinessKeySoleIdentity ==
    (pc \in AllDedupSteps
        /\ \A i \in 1..Len(list1 \o list2) : Truthy((list1 \o list2)[i].mgtNo)) =>
        Len(result) = Cardinality(KeysOf(list1 \o list2))

--------------------------------------------------------------------------
(* Further claims about the query windows (SpecRanges).                    *)

\* A Monday before every date of the model.
KnownMonday == Day(2024, 12, 9)

\* The Monday of the week that contains the date, by counting weeks from
\* a known Monday.
MondayOf(date) ==
    CHOOSE m \in {AddDays(date, 0 - k) : k \in 0..6} : DaysFromTo(KnownMonday, m) % 7 = 0

\* The first day S of the documented period of a run.
PeriodStart ==
    IF pc = "main --start-date" THEN strptime_api(window[1])
    ELSE IF pc = "main --week" THEN MondayOf(strptime_api(window[1]))
    ELSE MondayOf(now)

\* C27: documented period length.  With --start-date S --days N, and with
\* --week / --current-week where S is the Monday of the week, the target
\* window used for fetching and for the inclusive date filter covers
\* exactly the N days S .. S+N-1.
C27_DocumentedPeriodLength ==
    pc \in {"main --start-date", "main --week", "main --current-week"} =>
        /\ result[1] = format_date_for_api(PeriodStart)
        /\ result[2] = format_date_for_api(AddDays(PeriodStart, ArgDays - 1))
        /\ \A k \in (0 - 1)..(ArgDays + 1) :
              InWindow(result[1], format_date_for_api(AddDays(PeriodStart, k)), result[2])
                  <=> (0 <= k /\ k < ArgDays)

--------------------------------------------------------------------------
(* apiData.MedicalDataAPI.fetch_data_by_date: the two searches, each       *)
(* filtered by the target date, and the removal of duplicates.             *)

\* Every date taken for the target date.
api_any_date(row, target_date) == TRUE

\* _fetch_paginated_data: `apv_date == target_date`, where apv_date is the
\* row's apvPermYmd ('' when absent) without its hyphens.
api_date_matches(row, target_date) ==
    LET apv_date == IF row.apvPermYmd = None THEN <<>> ELSE row.apvPermYmd
    IN (IF Contains(apv_date, Hyphen) THEN Remove(apv_date, Hyphen) ELSE apv_date)
           = target_date

\* _fetch_paginated_data: {field: row.get(field, "")} of a row.
api_filtered_row(row) ==
    [mgtNo      |-> IF row.mgtNo = None THEN <<>> ELSE row.mgtNo,
     bplcNm     |-> IF row.bplcNm = None THEN <<>> ELSE row.bplcNm,
     apvPermYmd |-> IF row.apvPermYmd = None THEN <<>> ELSE row.apvPermYmd,
     src        |-> row.src]

\* _fetch_paginated_data on the rows of the pages it reads: the rows with
\* the target date, field by field.
fetch_paginated_rows(rows, target_date) ==
    LET matching == SelectSeq(rows, LAMBDA row : api_date_matches(row, target_date))
    IN [i \in 1..Len(matching) |-> api_filtered_row(matching[i])]

\* fetch_data_by_date with a valid category; by_permit and by_update are
\* the rows the two searches read.
fetch_data_by_date(target_date, by_permit, by_update) ==
    LET target == IF Contains(target_date, Hyphen) THEN Remove(target_date, Hyphen)
                  ELSE target_date
    IN remove_duplicates_by_mgtno(fetch_paginated_rows(by_permit, target)
                                  \o fetch_paginated_rows(by_update, target))

--------------------------------------------------------------------------
(* SpecByDate: fetch_data_by_date on bounded upstream rows.  list1 holds   *)
(* the rows of the search by permit date, list2 those of the search by     *)
(* update date, and the target date is the window's one day.               *)

MaxPermitRows == 2

D20250610 == format_date_for_display(Day(2025, 6, 10))

ByDateRows ==
    { Rec(k, NameX, d) : k \in {None, <<>>, Key100, Key101},
                         d \in {D0610, D20250610, D0625} }

InitByDate ==
    /\ pc = "start"
    /\ facility_type \in service_ids
    /\ now = NoDay
    /\ list1 \in SeqsUpTo(ByDateRows, MaxPermitRows)
    /\ list2 \in SeqsUpTo(ByDateRows, 1)
    /\ window \in {<<D0610, D0610>>, <<D20250610, D20250610>>}
    /\ result = <<>>
    /\ earlier = NoRun
    /\ FetchIdle

FetchDataByDateResult ==
    /\ pc = "start"
    /\ ValidFacilityType(facility_type)
    /\ pc' = "fetch_data_by_date"
    /\ result' = fetch_data_by_date(window[1], list1, list2)
    /\ UNCHANGED inputVars
    /\ UNCHANGED fetchVars

NextByDate == FetchDataByDateResult

SpecByDate == InitByDate /\ [][NextByDate]_vars

\* C29: result invariant of fetch_data_by_date.  Every record it returns
\* has a non-empty mgtNo, no two returned records share an mgtNo, and each
\* returned record's apvPermYmd with hyphens removed equals the target
\* date with hyphens removed.
C29_ResultInvariant ==
    pc = "fetch_data_by_date" =>
        /\ \A i \in 1..Len(result) :
              /\ Truthy(result[i].mgtNo)
              /\ Remove(result[i].apvPermYmd, Hyphen) = Remove(window[1], Hyphen)
        /\ \A i, j \in 1..Len(result) :
              result[i].mgtNo = result[j].mgtNo => i = j

\* C29 witness: the target date is given with hyphens; the search by
\* permit date reads a row of the day and a row of the day without key,
\* the search by update date reads the same facility with a hyphenated
\* date; one record is returned.
C29_Witness ==
    /\ pc = "fetch_data_by_date"
    /\ window[1] = D20250610
    /\ list1 = <<Rec(Key100, NameX, D0610), Rec(None, NameX, D0610)>>
    /\ list2 = <<Rec(Key100, NameX, D20250610)>>
    /\ result = <<Rec(Key100, NameX, D0610)>>

--------------------------------------------------------------------------
(* SpecComprehensive: one call of fetch_medical_data_comprehensive, which  *)
(* runs its loop until it returns or raises.                               *)

ComprehensiveFetchers ==
    { "hospitalData.fetch_medical_data_comprehensive",
      "integratedMedicalData.fetch_medical_data_comprehensive" }

InitComprehensive ==
    /\ InitFetch
    /\ fetcher \in ComprehensiveFetchers

NextComprehensive ==
    \/ FetchMedicalDataComprehensive
    \/ IntegratedFetchMedicalDataComprehensive

SpecComprehensive ==
    InitComprehensive /\ [][NextComprehensive]_vars /\ WF_vars(NextComprehensive)

\* C28: bounded request count.  fetch_medical_data_comprehensive issues at
\* most MAX_PAGES_PER_RANGE page requests per window, so at most that many
\* in explicit-range mode and three times as many over the three windows
\* of last-modified mode, whatever the upstream answers, and the call
\* comes to an end.
C28_BoundedRequestCount ==
    /\ [](/\ requests.n <= MAX_PAGES_PER_RANGE
          /\ requests.total <= (IF use_bgn_end THEN MAX_PAGES_PER_RANGE
                                ELSE 3 * MAX_PAGES_PER_RANGE))
    /\ <>(pc \in {"done", "raised"})

\* C28 witness: in last-modified mode the upstream has answered every
\* request with a full page; the call has returned after the full number
\* of pages of each of the three windows.
C28_Witness ==
    /\ fetcher = "hospitalData.fetch_medical_data_comprehensive"
    /\ ~use_bgn_end
    /\ pc = "done"
    /\ requests.range = 2
    /\ requests.n = MAX_PAGES_PER_RANGE
    /\ requests.total = 3 * MAX_PAGES_PER_RANGE
    /\ all_data = 3 * MAX_PAGES_PER_RANGE * PageSize

--------------------------------------------------------------------------
(* Single-list deduplication.                                              *)

\* The places of data_list that hold the first record of a non-empty key.
FirstOccurrences(data_list) ==
    {i \in 1..Len(data_list) :
        /\ Truthy(data_list[i].mgtNo)
        /\ \A j \in 1..(i - 1) : data_list[j].mgtNo # data_list[i].mgtNo}

\* The k-th smallest member of a set of places.
NthPlace(places, k) ==
    CHOOSE i \in places : Cardinality({j \in places : j <= i}) = k

\* C30: single-list deduplication keeps first occurrences in order.  The
\* output of _deduplicate_by_mgtno and of _remove_duplicates contains
\* exactly one record for each distinct non-empty mgtNo of the input list,
\* that record is the first input record carrying the key, the output
\* order is the order of first occurrence, and applying the function to
\* its own output returns it unchanged.
C30_FirstOccurrencesInOrder ==
    LET data_list == list1 \o list2
        firsts    == FirstOccurrences(data_list)
    IN /\ pc \in {"_deduplicate_by_mgtno", "_remove_duplicates"} =>
              /\ Len(result) = Cardinality(firsts)
              /\ \A k \in 1..Len(result) : result[k] = data_list[NthPlace(firsts, k)]
              /\ {result[k].mgtNo : k \in 1..Len(result)}
                     = {data_list[i].mgtNo : i \in 1..Len(data_list)} \ {None, <<>>}
       /\ pc = "_deduplicate_by_mgtno" => deduplicate_by_mgtno(result) = result
       /\ pc = "_remove_duplicates" => remove_duplicates_by_mgtno(result) = result

\* C30 witness: a list whose second key comes first, with a later record
\* of the first key under another name and a record without key.
C30_Witness ==
    /\ pc = "_deduplicate_by_mgtno"
    /\ list1 = <<Rec(Key101, NameX, D0610), Rec(Key100, NameX, D0610)>>
    /\ list2 = <<Rec(Key101, NameY, D0610), Rec(None, NameX, D0610)>>
    /\ result = <<Rec(Key101, NameX, D0610), Rec(Key100, NameX, D0610)>>

==========================================================================
